---- MODULE Spec2Model ----
(***************************************************************************)
(* A model of the scrape-create pipeline: the /scrape endpoint             *)
(* (src/main.py), the orchestrator scrape_website                          *)
(* (src/scraper/scrape_controller.py), the asset materialization           *)
(* download_assets (src/scraper/extract_assets.py) and the in-page         *)
(* extraction passes extract_content, extract_tokens, extract_assets and   *)
(* extract_meta.                                                           *)
(*                                                                         *)
(* Coroutines run on one asyncio event loop: the code between two awaits   *)
(* is atomic.  `running` names the coroutine that holds the loop; a step   *)
(* that ends in an await releases it.                                      *)
(***************************************************************************)
EXTENDS Integers, Sequences, FiniteSets, TLC

\* ------------------------------------------------------------------ bounds
\* longest images + backgrounds list handed to a direct download_assets call
MaxImages == 2
\* longest svgs list handed to a direct download_assets call
MaxSvgs == 2

\* ------------------------------------------------------- Python dictionaries
\* A dict is a function from key strings to values; a missing key is a key
\* that is not in the DOMAIN.
EmptyDict == [k \in {} |-> ""]
Has(d, k) == k \in DOMAIN d
Put(d, k, v) == (k :> v) @@ d
Range(s) == {s[k] : k \in DOMAIN s}

\* ------------------------------------------------------------ the universe
Reqs == {"r1", "r2"}
NoOne == "nobody"

\* A URL: scheme, a name and the suffix of its path as written.
Url(scheme, name, ext) == [scheme |-> scheme, name |-> name, ext |-> ext]
UrlA == Url("https", "a", ".png")
UrlB == Url("https", "b", ".PNG")
UrlC == Url("https", "c", ".svg")
UrlD == Url("https", "d", "")
UrlData == Url("data", "image/png;base64,AAAA", "")
\* the same data URI with its scheme in capitals
UrlDataUpper == Url("DATA", "image/png;base64,AAAA", "")
Urls == {UrlA, UrlB, UrlC, UrlD, UrlData, UrlDataUpper}

\* Bodies a server may answer with; "junk" is not a decodable image.
Bytes == {"x", "junk"}
SvgMarkup == {"<svg>A</svg>", "<svg>B</svg>"}

\* Records produced by extract_assets (extract_assets.py:50-56, 88-92, 101-107)
ImgRec(u) == [url |-> u, type |-> "img"]
BgRec(u) == [url |-> u, type |-> "background"]
SvgRec(i, c) == [content |-> c, index |-> i, type |-> "inline-svg"]

\* ---------------------------------------------------------------- variables
VARIABLES
  pc,                 \* per request: the statement it is at
  running,            \* the coroutine holding the event loop, or NoOne
  req,                \* per request: the arguments of the call
  browser,            \* per request: "none" | "open" | "closed"
  closes,             \* per request: number of browser.close() calls
  exc,                \* per request: the exception in flight or propagated
  nav,                \* per request: outcome of page.goto
  http_status,        \* per request: status of the HTTP response, 0 = none yet
  sw_result,          \* per request: value returned by scrape_website
  scroll_y,           \* per request: the page's scroll position, in px
  scroll_height,      \* per request: document.body.scrollHeight, in px
  grow_left,          \* per request: how many more times the page will grow
  total_height,       \* per request: totalHeight of the scroll sweep
  events,             \* history: per request, the awaits of scrape_website, in order
  content_data,       \* per request: locals of scrape_website
  assets_data,
  tokens_data,
  meta_data,
  all_images,         \* per call of download_assets: its locals
  img_i,
  downloaded_images,
  seen_hashes,
  svg_j,
  downloaded_svgs,
  index,
  da_result,          \* per call: value returned by download_assets
  files,              \* the file system: path -> content
  fetch_log,          \* history: per call, what happened to each candidate
  written,            \* history: per call, the paths it wrote, in order
  ec_pc,              \* extract_content: "idle" | "paragraphs" | "done"
  ec_page,            \* the <p> elements of the page, in document order
  ec_k,               \* position of the forEach over them
  paragraphs,         \* result.paragraphs
  et_pc,              \* extract_tokens: "idle" | "sample" | "spacing" | "limit" | "done"
  et_elements,        \* elementsToSample, with their computed styles
  et_inherited,       \* the color a child of <body> inherits
  et_spacing_elements,\* spacingElements, with their computed styles
  et_k,               \* position of the forEach in progress
  colors,             \* result.colors
  spacing,            \* result.spacing
  sizes,              \* result.fonts.sizes
  et_log,             \* history: the calls of addUniqueColor, in order
  ea_pc,              \* extract_assets: "idle" | "imgs" | "backgrounds" | "svgs" | "done"
  ea_k,               \* elements visited by the forEach in progress
  ea_seen,            \* seen
  ea_result,          \* result
  ea_log,             \* history: the references met, in order
  em_pc,              \* extract_meta: "idle" | "metas" | "done"
  em_k,               \* <meta> elements visited
  em_result,          \* result
  em_log              \* history: the <meta> elements visited, in order

\* the page during the settle phase
vars_geo == <<scroll_y, scroll_height, grow_left, total_height>>
vars_settle == <<vars_geo, events>>
vars_sw == <<pc, running, req, browser, closes, exc, nav, http_status, sw_result,
             content_data, assets_data, tokens_data, meta_data, vars_settle>>
vars_da == <<all_images, img_i, downloaded_images, seen_hashes, svg_j,
             downloaded_svgs, index, da_result, files, fetch_log, written>>
vars_ec == <<ec_pc, ec_page, ec_k, paragraphs>>
vars_et == <<et_pc, et_elements, et_inherited, et_spacing_elements, et_k, colors, spacing,
             sizes, et_log>>
vars_ea == <<ea_pc, ea_k, ea_seen, ea_result, ea_log>>
\* the state of the in-page scripts, which the Python side never touches
vars_em == <<em_pc, em_k, em_result, em_log>>
vars_pages == <<vars_ec, vars_et, vars_ea, vars_em>>
vars == <<vars_sw, vars_da, vars_ec, vars_et, vars_ea, vars_em>>
\* what the steps of download_assets leave alone in scrape_website's frame
vars_sw_data == <<req, browser, closes, nav, http_status, sw_result, content_data,
                  assets_data, tokens_data, meta_data>>

\* ------------------------------------------------------------ exceptions
NoExc == [cls |-> "none", at |-> "none"]
Raised(cls, at) == [cls |-> cls, at |-> at]

\* The base classes of each exception class the pipeline can meet.  Playwright's
\* TimeoutError derives from playwright's Error, which derives from Exception;
\* it is not asyncio.TimeoutError.
Bases(cls) ==
  CASE cls = "playwright.TimeoutError" -> {"playwright.TimeoutError", "playwright.Error", "Exception"}
    [] cls = "playwright.Error" -> {"playwright.Error", "Exception"}
    [] cls = "asyncio.TimeoutError" -> {"asyncio.TimeoutError", "Exception"}
    [] cls = "aiohttp.ClientError" -> {"aiohttp.ClientError", "Exception"}
    [] cls = "KeyError" -> {"KeyError", "LookupError", "Exception"}
    [] cls = "UnboundLocalError" -> {"UnboundLocalError", "NameError", "Exception"}
    [] cls = "OSError" -> {"OSError", "Exception"}
    [] OTHER -> {"Exception"}
IsInstance(cls, base) == base \in Bases(cls)

\* scrape_endpoint's except clauses, in order (main.py:89-98)
scrape_endpoint_status(cls) ==
  IF IsInstance(cls, "asyncio.TimeoutError") THEN 504
  ELSE 500

\* An exception raised inside scrape_website's try block: control goes to the
\* finally clause with the exception pending (scrape_controller.py:47,131).
RaiseInTry_noFinally(cls, at) == [pc |-> "sw_raised", exc |-> Raised(cls, at)]
RaiseInTry_goesOn(cls, at) == [pc |-> "settle", exc |-> Raised(cls, at)]
RaiseInTry(cls, at) == [pc |-> "finally", exc |-> Raised(cls, at)]

\* An exception leaving download_assets reaches its caller: scrape_website's
\* try block, or the direct caller.
RaiseFromDA(r, cls, at) ==
  IF req[r].caller = "endpoint" THEN RaiseInTry(cls, at)
  ELSE [pc |-> "da_raised", exc |-> Raised(cls, at)]

\* ------------------------------------------------------------ initial state
InitCalls ==
  /\ pc = [r \in Reqs |-> "idle"]
  /\ running = NoOne
  /\ req = [r \in Reqs |-> [caller |-> "none", save_assets |-> FALSE, convert_to_webp |-> FALSE]]
  /\ browser = [r \in Reqs |-> "none"]
  /\ closes = [r \in Reqs |-> 0]
  /\ exc = [r \in Reqs |-> NoExc]
  /\ nav = [r \in Reqs |-> "none"]
  /\ http_status = [r \in Reqs |-> 0]
  /\ sw_result = [r \in Reqs |-> EmptyDict]
  /\ scroll_y = [r \in Reqs |-> 0]
  /\ total_height = [r \in Reqs |-> 0]
  /\ events = [r \in Reqs |-> <<>>]
  /\ content_data = [r \in Reqs |-> ""]
  /\ assets_data = [r \in Reqs |-> EmptyDict]
  /\ tokens_data = [r \in Reqs |-> ""]
  /\ meta_data = [r \in Reqs |-> ""]
  /\ all_images = [r \in Reqs |-> <<>>]
  /\ img_i = [r \in Reqs |-> 1]
  /\ downloaded_images = [r \in Reqs |-> <<>>]
  /\ seen_hashes = [r \in Reqs |-> EmptyDict]
  /\ svg_j = [r \in Reqs |-> 1]
  /\ downloaded_svgs = [r \in Reqs |-> <<>>]
  /\ index = [r \in Reqs |-> <<>>]
  /\ da_result = [r \in Reqs |-> EmptyDict]
  /\ files = EmptyDict
  /\ fetch_log = [r \in Reqs |-> <<>>]
  /\ written = [r \in Reqs |-> <<>>]

\* viewport={'width': 1920, 'height': 1080} (scrape_controller.py:50)
ViewportHeight == 1080
\* const distance = 100 (scrape_controller.py:72)
ScrollDistance == 100
\* most times a page grows while it is scrolled
MaxGrowth == 2
\* ticks of the sweep counted on a document that has no body
MaxTicks == 3
\* document.body is null (scrape_controller.py:77): the document is not an
\* HTML document (an SVG or XML file), or a script removed its body
NoBody == -1

\* a page taller than the viewport: it can be scrolled
TallPage == ViewportHeight + ScrollDistance + 70
\* document.body.scrollHeight of the pages considered: an empty body, a body
\* of one step, of exactly the viewport, and a taller one
PageHeights == {0, ScrollDistance, ViewportHeight, TallPage}
\* what a page that loads more content when scrolled adds to its height
GrowStep == ScrollDistance + 50

\* every request is for a page of fixed height, taller than the viewport
TallPages ==
  /\ scroll_height = [r \in Reqs |-> TallPage]
  /\ grow_left = [r \in Reqs |-> 0]
\* the page of request "r1" has any of the heights above and may grow
AnyPage ==
  /\ scroll_height \in [Reqs -> PageHeights]
  /\ grow_left \in [Reqs -> 0..MaxGrowth]
  /\ scroll_height["r2"] = TallPage /\ grow_left["r2"] = 0

\* the document of request "r1" is any of these pages or has no body
AnyDocument ==
  /\ scroll_height \in [Reqs -> PageHeights \cup {NoBody}]
  /\ grow_left \in [Reqs -> 0..MaxGrowth]
  /\ scroll_height["r1"] = NoBody => grow_left["r1"] = 0
  /\ scroll_height["r2"] = TallPage /\ grow_left["r2"] = 0

InitRequests == InitCalls /\ TallPages

\* no in-page script is running
IdleContent ==
  /\ ec_pc = "idle"
  /\ ec_page = <<>>
  /\ ec_k = 1
  /\ paragraphs = <<>>
IdleTokens ==
  /\ et_pc = "idle"
  /\ et_elements = <<>>
  /\ et_inherited = ""
  /\ et_spacing_elements = <<>>
  /\ et_k = 1
  /\ colors = [primary |-> <<>>, text |-> <<>>, background |-> <<>>, border |-> <<>>]
  /\ spacing = <<>>
  /\ sizes = <<>>
  /\ et_log = <<>>
IdleAssets ==
  /\ ea_pc = "idle"
  /\ ea_k = 0
  /\ ea_seen = {}
  /\ ea_result = [images |-> <<>>, svgs |-> <<>>, backgrounds |-> <<>>]
  /\ ea_log = <<>>
\* JavaScript's null, among strings that are sequences of characters
JsNull == <<"null value">>
\* result as extract_meta declares it (extract_meta.py:14-25); the url is
\* left out
EmptyMeta ==
  [title |-> <<>>, description |-> <<>>, keywords |-> <<>>, opengraph |-> EmptyDict,
   twitter |-> EmptyDict, favicon |-> JsNull, canonical |-> JsNull, language |-> JsNull,
   author |-> JsNull]
IdleMeta ==
  /\ em_pc = "idle"
  /\ em_k = 0
  /\ em_result = EmptyMeta
  /\ em_log = <<>>

Init == InitRequests /\ IdleContent /\ IdleTokens /\ IdleAssets /\ IdleMeta

CanRun(r) == running \in {NoOne, r}

\* Move request r to the state `to` (a record with pc and exc).
Jump(r, to) ==
  /\ pc' = [pc EXCEPT ![r] = to.pc]
  /\ exc' = [exc EXCEPT ![r] = to.exc]
Goto(r, label) ==
  /\ pc' = [pc EXCEPT ![r] = label]
  /\ exc' = exc

\* ------------------------------------------------- scrape_endpoint, entry
\* POST /scrape: the handler calls scrape_website with the request's fields and
\* suspends on the browser launch (main.py:71-80, scrape_controller.py:30-33).
scrape_endpoint(r) ==
  /\ pc[r] = "idle"
  /\ CanRun(r)
  /\ UNCHANGED <<vars_pages, vars_settle>>
  /\ \E sa \in BOOLEAN, cw \in BOOLEAN :
       req' = [req EXCEPT ![r] = [caller |-> "endpoint", save_assets |-> sa, convert_to_webp |-> cw]]
  /\ Goto(r, "launch")
  /\ running' = NoOne
  /\ UNCHANGED <<browser, closes, nav, http_status, sw_result, content_data,
                 assets_data, tokens_data, meta_data, vars_da>>

\* await p.chromium.launch(...): outside the try block (scrape_controller.py:33-45)
Launch(r) ==
  /\ pc[r] = "launch"
  /\ CanRun(r)
  /\ UNCHANGED <<vars_pages, vars_settle>>
  /\ \/ /\ browser' = [browser EXCEPT ![r] = "open"]
        /\ Goto(r, "new_context")
        /\ running' = NoOne
     \/ /\ browser' = browser
        /\ Jump(r, [pc |-> "sw_raised", exc |-> Raised("playwright.Error", "launch")])
        /\ running' = r
  /\ UNCHANGED <<req, closes, nav, http_status, sw_result, content_data,
                 assets_data, tokens_data, meta_data, vars_da>>

\* browser.new_context, context.new_page, page.set_default_timeout
\* (scrape_controller.py:49-57)
NewContext(r) ==
  /\ pc[r] = "new_context"
  /\ CanRun(r)
  /\ UNCHANGED <<vars_pages, vars_settle>>
  /\ \/ Goto(r, "goto")
     \/ Jump(r, RaiseInTry("playwright.Error", "new_context"))
  /\ running' = NoOne
  /\ UNCHANGED <<req, browser, closes, nav, http_status, sw_result, content_data,
                 assets_data, tokens_data, meta_data, vars_da>>

\* await page.goto(url, wait_until='networkidle', timeout=timeout)
\* (scrape_controller.py:62): it returns, or raises playwright's TimeoutError
\* when network-idle is not reached in time, or playwright's Error when the
\* host cannot be reached.
Navigate(r) ==
  /\ pc[r] = "goto"
  /\ CanRun(r)
  /\ UNCHANGED <<vars_pages, vars_geo>>
  /\ events' = [events EXCEPT ![r] = Append(@, "goto")]
  /\ \/ /\ nav' = [nav EXCEPT ![r] = "ok"]
        /\ Goto(r, "settle")
     \/ /\ nav' = [nav EXCEPT ![r] = "timeout"]
        /\ Jump(r, RaiseInTry("playwright.TimeoutError", "goto"))
     \/ /\ nav' = [nav EXCEPT ![r] = "unreachable"]
        /\ Jump(r, RaiseInTry("playwright.Error", "goto"))
  /\ running' = NoOne
  /\ UNCHANGED <<req, browser, closes, http_status, sw_result, content_data,
                 assets_data, tokens_data, meta_data, vars_da>>

\* await page.wait_for_timeout(2000), then the scroll sweep is sent to the
\* page: totalHeight = 0 and the interval timer is set
\* (scrape_controller.py:65-73)
Settle(r) ==
  /\ pc[r] = "settle"
  /\ CanRun(r)
  /\ UNCHANGED vars_pages
  /\ total_height' = [total_height EXCEPT ![r] = 0]
  /\ events' = [events EXCEPT ![r] = Append(@, "wait_2000")]
  /\ Goto(r, "scroll")
  /\ running' = NoOne
  /\ UNCHANGED <<req, browser, closes, nav, http_status, sw_result, content_data,
                 assets_data, tokens_data, meta_data, vars_da, scroll_y, scroll_height,
                 grow_left>>

\* window.scrollBy(0, distance) (scrape_controller.py:74): the position moves
\* down, as far as the document reaches below the viewport
scrollBy(y, distance, height) ==
  LET lowest == IF height > ViewportHeight THEN height - ViewportHeight ELSE 0
  IN IF y + distance < lowest THEN y + distance ELSE lowest
\* window.scrollTo(0, 0) (scrape_controller.py:87)
scrollTo_keepsPosition(y, target) == y
scrollTo(y, target) == target

\* totalHeight >= document.body.scrollHeight (scrape_controller.py:77): true,
\* false, or a TypeError thrown in the callback when document.body is null
Reached(total, height) ==
  IF height = NoBody THEN "throws" ELSE IF total >= height THEN "true" ELSE "false"

\* one run of the interval callback, in the page (scrape_controller.py:73-81):
\* scroll, add the distance, and resolve once totalHeight has reached
\* document.body.scrollHeight.  A callback that throws leaves the timer set
\* and the promise pending; on such a document totalHeight is followed for
\* MaxTicks ticks and is never compared.  The evaluate may also fail (the
\* page crashed).
SweepTick(r) ==
  /\ pc[r] = "scroll"
  /\ UNCHANGED vars_pages
  /\ \/ LET total == IF /\ scroll_height[r] = NoBody
                          /\ total_height[r] >= MaxTicks * ScrollDistance
                       THEN total_height[r]
                       ELSE total_height[r] + ScrollDistance
        IN /\ scroll_y' = [scroll_y EXCEPT ![r] = scrollBy(@, ScrollDistance, scroll_height[r])]
           /\ total_height' = [total_height EXCEPT ![r] = total]
           /\ IF Reached(total, scroll_height[r]) = "true"
              THEN /\ Goto(r, "scroll_top")
                   /\ events' = [events EXCEPT ![r] = Append(@, "sweep")]
              ELSE /\ Goto(r, "scroll")
                   /\ events' = events
     \/ /\ Jump(r, RaiseInTry("playwright.Error", "scroll"))
        /\ UNCHANGED <<scroll_y, total_height, events>>
  /\ UNCHANGED <<running, req, browser, closes, nav, http_status, sw_result, content_data,
                 assets_data, tokens_data, meta_data, vars_da, scroll_height, grow_left>>

\* the page loads more content while it is scrolled: its height grows
PageGrows(r) ==
  /\ pc[r] = "scroll"
  /\ grow_left[r] > 0
  /\ UNCHANGED vars_pages
  /\ scroll_height' = [scroll_height EXCEPT ![r] = @ + GrowStep]
  /\ grow_left' = [grow_left EXCEPT ![r] = @ - 1]
  /\ UNCHANGED <<pc, exc, running, req, browser, closes, nav, http_status, sw_result,
                 content_data, assets_data, tokens_data, meta_data, vars_da, scroll_y,
                 total_height, events>>

\* the sweep's evaluate returns; await page.evaluate("window.scrollTo(0, 0)")
\* (scrape_controller.py:84-87)
ScrollTop(r) ==
  /\ pc[r] = "scroll_top"
  /\ CanRun(r)
  /\ UNCHANGED vars_pages
  /\ scroll_y' = [scroll_y EXCEPT ![r] = scrollTo(@, 0)]
  /\ events' = [events EXCEPT ![r] = Append(@, "scroll_top")]
  /\ Goto(r, "settle2")
  /\ running' = NoOne
  /\ UNCHANGED <<req, browser, closes, nav, http_status, sw_result, content_data,
                 assets_data, tokens_data, meta_data, vars_da, scroll_height, grow_left,
                 total_height>>

\* await page.wait_for_timeout(1000), then extract_content(page) is called
\* (scrape_controller.py:88-93)
Settle2(r) ==
  /\ pc[r] = "settle2"
  /\ CanRun(r)
  /\ UNCHANGED <<vars_pages, vars_geo>>
  /\ events' = [events EXCEPT ![r] = @ \o <<"wait_1000", "start:extract_content">>]
  /\ Goto(r, "extract_content")
  /\ running' = NoOne
  /\ UNCHANGED <<req, browser, closes, nav, http_status, sw_result, content_data,
                 assets_data, tokens_data, meta_data, vars_da>>

\* ------------------------------------------------------ extraction passes
\* What extract_assets can hand back for the pages considered: well-formed
\* records, no URL twice, SVG indices 0..n-1 (extract_assets.py:21-114).
Pages ==
  { [images |-> <<>>, backgrounds |-> <<>>, svgs |-> <<>>],
    [images |-> <<ImgRec(UrlA), ImgRec(UrlB)>>, backgrounds |-> <<>>,
     svgs |-> <<SvgRec(0, "<svg>A</svg>")>>],
    [images |-> <<ImgRec(UrlData)>>, backgrounds |-> <<BgRec(UrlC)>>,
     svgs |-> <<SvgRec(0, "<svg>B</svg>")>>] }

\* The statement after an extraction pass that returned
\* (scrape_controller.py:93-101).
AfterPass_tokensBeforeAssets(r, label) ==
  CASE label = "extract_content" -> "extract_tokens"
    [] label = "extract_tokens" -> "extract_assets"
    [] label = "extract_assets" -> "extract_meta"
    [] label = "extract_meta" -> IF req[r].save_assets /\ assets_data[r] # EmptyDict
                                  THEN "da_begin" ELSE "write_output"
AfterPass(r, label) ==
  CASE label = "extract_content" -> "extract_assets"
    [] label = "extract_assets" -> "extract_tokens"
    [] label = "extract_tokens" -> "extract_meta"
    [] label = "extract_meta" -> IF req[r].save_assets /\ assets_data[r] # EmptyDict
                                  THEN "da_begin" ELSE "write_output"

\* One of the four awaited passes: content, assets, tokens, meta, each a
\* page.evaluate that returns a record or raises (scrape_controller.py:93-96).
ExtractPass(r) ==
  /\ pc[r] \in {"extract_content", "extract_assets", "extract_tokens", "extract_meta"}
  /\ CanRun(r)
  /\ UNCHANGED <<vars_pages, vars_geo>>
  /\ \/ /\ pc[r] = "extract_content"
        /\ content_data' = [content_data EXCEPT ![r] = r]
        /\ UNCHANGED <<assets_data, tokens_data, meta_data>>
        /\ Goto(r, AfterPass(r, pc[r]))
        /\ events' = [events EXCEPT ![r] = @ \o <<"return:" \o pc[r], "start:" \o pc'[r]>>]
        /\ running' = NoOne
     \/ /\ pc[r] = "extract_assets"
        /\ \E page \in Pages : assets_data' = [assets_data EXCEPT ![r] = page]
        /\ UNCHANGED <<content_data, tokens_data, meta_data>>
        /\ Goto(r, AfterPass(r, pc[r]))
        /\ events' = [events EXCEPT ![r] = @ \o <<"return:" \o pc[r], "start:" \o pc'[r]>>]
        /\ running' = NoOne
     \/ /\ pc[r] = "extract_tokens"
        /\ tokens_data' = [tokens_data EXCEPT ![r] = r]
        /\ UNCHANGED <<content_data, assets_data, meta_data>>
        /\ Goto(r, AfterPass(r, pc[r]))
        /\ events' = [events EXCEPT ![r] = @ \o <<"return:" \o pc[r], "start:" \o pc'[r]>>]
        /\ running' = NoOne
     \/ /\ pc[r] = "extract_meta"
        /\ meta_data' = [meta_data EXCEPT ![r] = r]
        /\ UNCHANGED <<content_data, assets_data, tokens_data>>
        /\ Goto(r, AfterPass(r, pc[r]))
        /\ events' = [events EXCEPT ![r] = Append(@, "return:" \o pc[r])]
        /\ running' = r
     \/ /\ Jump(r, RaiseInTry("playwright.Error", pc[r]))
        /\ UNCHANGED <<content_data, assets_data, tokens_data, meta_data>>
        /\ events' = [events EXCEPT ![r] = Append(@, "raise:" \o pc[r])]
        /\ running' = NoOne
  /\ UNCHANGED <<req, browser, closes, nav, http_status, sw_result, vars_da>>

\* ------------------------------------------------------- download_assets
\* hashlib.md5(content).hexdigest() (extract_assets.py:150)
md5(content) == "md5(" \o content \o ")"

\* Path(urlparse(url).path).suffix.lower() (extract_assets.py:159-160)
lower(s) == IF s = ".PNG" THEN ".png" ELSE s
original_ext(url) == lower(url.ext)

\* convert_to_webp and original_ext in ['.jpg', '.jpeg', '.png', '.gif']
\* (extract_assets.py:163)
ShouldConvert(convert_to_webp, ext) ==
  convert_to_webp /\ ext \in {".jpg", ".jpeg", ".png", ".gif"}

\* Image.open(...) ... image.save(filepath, 'WEBP', quality=85) succeeds on a
\* decodable image and raises on anything else (extract_assets.py:165-180)
CanConvert(content) == content # "junk"

\* response.status == 200 (extract_assets.py:146)
StatusOk_anyStatus(status) == status # 0
StatusOk_any2xx(status) == status \in 200..299
StatusOk(status) == status = 200

\* `file_hash in seen_hashes` and `seen_hashes[file_hash]` on the table of the
\* call itself (extract_assets.py:130, 152-154): the path already assigned to
\* the hash, or nothing.
LookupHash_sharedTable(r, file_hash) ==
  LET qs == {q \in Reqs : Has(seen_hashes[q], file_hash)}
  IN IF qs = {} THEN <<>> ELSE <<seen_hashes[CHOOSE q \in qs : TRUE][file_hash]>>
LookupHash_never(r, file_hash) == <<>>
LookupHash(r, file_hash) ==
  IF Has(seen_hashes[r], file_hash) THEN <<seen_hashes[r][file_hash]>> ELSE <<>>

\* ext = original_ext or '.jpg' (extract_assets.py:189, 197)
StoredExt_alwaysJpg(ext) == ".jpg"
StoredExt(ext) == IF ext = "" THEN ".jpg" ELSE ext

ImagePath(filename) == "assets/images/" \o filename
\* filename = f"inline-svg-{index}.svg" under assets/svg (extract_assets.py:215-218)
SvgPath_oneName(i) == "assets/svg/inline-svg.svg"
SvgPath(i) == "assets/svg/inline-svg-" \o ToString(i) \o ".svg"

\* What the server may answer to session.get(url) (extract_assets.py:145-147)
Responses ==
  {[status |-> 200, body |-> b] : b \in Bytes} \cup
  {[status |-> st, body |-> ""] : st \in {204, 404}}

\* 'deduplicated': len(all_images) - len(downloaded_images)
\* (extract_assets.py:228)
Deduplicated_entriesAsSkips(n_all, n_downloaded) == n_downloaded
Deduplicated(n_all, n_downloaded) == n_all - n_downloaded

\* dict.get(key, default)
Get(d, k, default) == IF Has(d, k) THEN d[k] ELSE default

SeqsUpTo(S, n) == UNION {[1..k -> S] : k \in 0..n}

\* Arguments of a direct call: any records, with or without their keys.
DirectImageRecs == {ImgRec(u) : u \in Urls} \cup {[type |-> "img"]}
DirectSvgRecs(k) ==
  {SvgRec(k - 1, c) : c \in SvgMarkup} \cup
  {[content |-> "<svg>A</svg>", type |-> "inline-svg"], [index |-> k - 1, type |-> "inline-svg"]}
DirectBgRecs == {BgRec(UrlA), BgRec(UrlC)}
DirectSvgLists ==
  {s \in SeqsUpTo(UNION {DirectSvgRecs(k) : k \in 1..MaxSvgs}, MaxSvgs) :
     \A k \in DOMAIN s : s[k] \in DirectSvgRecs(k)}
\* with or without a 'backgrounds' key (assets_data.get('backgrounds', []))
DirectInputs ==
  {[images |-> im, svgs |-> sv] :
     im \in SeqsUpTo(DirectImageRecs, MaxImages), sv \in DirectSvgLists} \cup
  {[images |-> p[1], backgrounds |-> p[2], svgs |-> sv] :
     p \in {q \in SeqsUpTo(DirectImageRecs, MaxImages) \X SeqsUpTo(DirectBgRecs, MaxImages) :
              q[2] # <<>> /\ Len(q[1]) + Len(q[2]) <= MaxImages},
     sv \in DirectSvgLists}

\* A caller other than scrape_website calls download_assets(assets_data,
\* convert_to_webp) (extract_assets.py:117).
download_assets(r) ==
  /\ pc[r] = "idle"
  /\ CanRun(r)
  /\ UNCHANGED <<vars_pages, vars_settle>>
  /\ \E a \in DirectInputs, cw \in BOOLEAN :
       /\ req' = [req EXCEPT ![r] = [caller |-> "direct", save_assets |-> TRUE, convert_to_webp |-> cw]]
       /\ assets_data' = [assets_data EXCEPT ![r] = a]
  /\ Goto(r, "da_begin")
  /\ running' = r
  /\ UNCHANGED <<browser, closes, nav, http_status, sw_result, content_data,
                 tokens_data, meta_data, vars_da>>

\* mkdir of assets/images and assets/svg, then the locals
\* (extract_assets.py:123-135); the call suspends on the first session.get.
DA_Begin(r) ==
  /\ pc[r] = "da_begin"
  /\ CanRun(r)
  /\ UNCHANGED <<vars_pages, vars_settle>>
  /\ \/ /\ Goto(r, "da_image")
        /\ all_images' = [all_images EXCEPT ![r] =
                            Get(assets_data[r], "images", <<>>) \o Get(assets_data[r], "backgrounds", <<>>)]
        /\ img_i' = [img_i EXCEPT ![r] = 1]
        /\ downloaded_images' = [downloaded_images EXCEPT ![r] = <<>>]
        /\ downloaded_svgs' = [downloaded_svgs EXCEPT ![r] = <<>>]
        /\ seen_hashes' = [seen_hashes EXCEPT ![r] = EmptyDict]
        /\ svg_j' = [svg_j EXCEPT ![r] = 1]
        /\ index' = [index EXCEPT ![r] = <<>>]
        /\ fetch_log' = [fetch_log EXCEPT ![r] = <<>>]
        /\ written' = [written EXCEPT ![r] = <<>>]
     \/ /\ Jump(r, RaiseFromDA(r, "OSError", "mkdir"))
        /\ UNCHANGED <<all_images, img_i, downloaded_images, downloaded_svgs,
                       seen_hashes, svg_j, index, fetch_log, written>>
  /\ running' = NoOne
  /\ UNCHANGED <<req, browser, closes, nav, http_status, sw_result, content_data,
                 assets_data, tokens_data, meta_data, da_result, files>>

\* url.startswith('data:') (extract_assets.py:141): the scheme as written
IsDataUrl_never(url) == FALSE
IsDataUrl(url) == url.scheme = "data"

\* session.get(url, ...) (extract_assets.py:145) sends a request for an http
\* or https URL only; for any other scheme it raises before anything is sent.
Fetchable(url) == url.scheme \in {"http", "https"}

\* What can happen to one candidate: no 'url' key (KeyError), a data URL, the
\* fetch raising (timeout, connection error, a URL that cannot be requested),
\* or a response.
Outcomes(d) ==
  IF ~Has(d, "url") THEN {[kind |-> "keyerror", status |-> 0, body |-> ""]}
  ELSE IF IsDataUrl(d.url) THEN {[kind |-> "data", status |-> 0, body |-> ""]}
  ELSE IF ~Fetchable(d.url) THEN {[kind |-> "exc", status |-> 0, body |-> ""]}
  ELSE {[kind |-> "exc", status |-> 0, body |-> ""]} \cup
       {[kind |-> "resp", status |-> resp.status, body |-> resp.body] : resp \in Responses}

\* The hash is in the table (extract_assets.py:152-156): the entry takes the
\* path the table holds and is appended; nothing else happens.
HitEffect_storesAgain(r, d, body, path) ==
  [append |-> <<Put(d, "local_path", path)>>, seen |-> seen_hashes[r],
   write |-> <<[path |-> path, content |-> [kind |-> "bytes", data |-> body]]>>,
   outcome |-> "hit"]
HitEffect(r, d, body, path) ==
  [append |-> <<Put(d, "local_path", path)>>, seen |-> seen_hashes[r],
   write |-> <<>>, outcome |-> "hit"]

\* seen_hashes[file_hash] = img_data['local_path']
\* (extract_assets.py:184, 194, 202)
StoreHash_forgets(seen, file_hash, path) == seen
StoreHash(seen, file_hash, path) == Put(seen, file_hash, path)

\* The body of the image loop for candidate d and outcome o
\* (extract_assets.py:137-208): the entry appended (if any), the table after
\* it, the file written (if any).  A write into the directories made at
\* lines 123-126 is taken to succeed.
ImageEffect(r, d, o, convert_to_webp) ==
  IF o.kind # "resp" \/ ~StatusOk(o.status)
  THEN [append |-> <<>>, seen |-> seen_hashes[r], write |-> <<>>,
        outcome |-> IF o.kind = "resp" THEN "non200" ELSE o.kind]
  ELSE
    LET file_hash == md5(o.body)
        hit == LookupHash(r, file_hash)
        ext == original_ext(d.url)
    IN IF hit # <<>>
       THEN HitEffect(r, d, o.body, hit[1])
       ELSE IF ShouldConvert(convert_to_webp, ext) /\ CanConvert(o.body)
       THEN LET path == ImagePath(file_hash \o ".webp")
            IN [append |-> <<Put(Put(d, "local_path", path), "converted", TRUE)>>,
                seen |-> StoreHash(seen_hashes[r], file_hash, path),
                write |-> <<[path |-> path, content |-> [kind |-> "webp", data |-> o.body]]>>,
                outcome |-> "converted"]
       ELSE LET path == ImagePath(file_hash \o StoredExt(ext))
            IN [append |-> <<Put(d, "local_path", path)>>,
                seen |-> StoreHash(seen_hashes[r], file_hash, path),
                write |-> <<[path |-> path, content |-> [kind |-> "bytes", data |-> o.body]]>>,
                outcome |-> IF ShouldConvert(convert_to_webp, ext) THEN "fallback" ELSE "original"]

\* `for img_data in all_images`: whatever happened to a candidate, by
\* `continue`, by the except clause or by the end of the body, the loop goes
\* on to the next one (extract_assets.py:136-142, 207-208)
NextCandidate_retryFailed(i, outcome) == IF outcome \in {"exc", "non200"} THEN i ELSE i + 1
NextCandidate(i, outcome) == i + 1

WriteAll(fs, ws) == IF ws = <<>> THEN fs ELSE Put(fs, ws[1].path, ws[1].content)

\* One iteration of `for img_data in all_images` (extract_assets.py:136-208)
DA_Image(r) ==
  /\ pc[r] = "da_image"
  /\ CanRun(r)
  /\ UNCHANGED <<vars_pages, vars_settle>>
  /\ img_i[r] <= Len(all_images[r])
  /\ \E o \in Outcomes(all_images[r][img_i[r]]) :
       LET d == all_images[r][img_i[r]]
           e == ImageEffect(r, d, o, req[r].convert_to_webp)
       IN /\ downloaded_images' = [downloaded_images EXCEPT ![r] = @ \o e.append]
          /\ seen_hashes' = [seen_hashes EXCEPT ![r] = e.seen]
          /\ files' = WriteAll(files, e.write)
          /\ written' = [written EXCEPT ![r] = @ \o [k \in DOMAIN e.write |-> e.write[k].path]]
          /\ fetch_log' = [fetch_log EXCEPT ![r] = Append(@,
                             [cand |-> img_i[r], outcome |-> e.outcome, status |-> o.status,
                              body |-> o.body,
                              path |-> IF e.append = <<>> THEN "" ELSE e.append[1].local_path])]
          /\ img_i' = [img_i EXCEPT ![r] = NextCandidate(@, e.outcome)]
  /\ Goto(r, "da_image")
  /\ running' = NoOne
  /\ UNCHANGED <<vars_sw_data, all_images, svg_j, downloaded_svgs, index, da_result>>

\* The image loop is over and the ClientSession closes
\* (extract_assets.py:135-136); the SVG loop runs without suspending.
DA_SessionClose(r) ==
  /\ pc[r] = "da_image"
  /\ CanRun(r)
  /\ UNCHANGED <<vars_pages, vars_settle>>
  /\ img_i[r] > Len(all_images[r])
  /\ Goto(r, "da_svg")
  /\ running' = r
  /\ UNCHANGED <<vars_sw_data, vars_da>>

\* One iteration of `for svg_data in assets_data.get('svgs', [])`
\* (extract_assets.py:211-221).  The except clause formats `index`, which is
\* unbound until a record has supplied one.
\* filepath.write_text is taken to succeed.
DA_Svg(r) ==
  /\ pc[r] = "da_svg"
  /\ CanRun(r)
  /\ UNCHANGED <<vars_pages, vars_settle>>
  /\ svg_j[r] <= Len(Get(assets_data[r], "svgs", <<>>))
  /\ LET svg_data == Get(assets_data[r], "svgs", <<>>)[svg_j[r]]
     IN IF ~Has(svg_data, "index")
        THEN \* KeyError at line 213; the handler reads `index`
             /\ IF index[r] = <<>>
                THEN Jump(r, RaiseFromDA(r, "UnboundLocalError", "svg"))
                ELSE Goto(r, "da_svg")
             /\ UNCHANGED <<index, files, written, downloaded_svgs>>
        ELSE /\ index' = [index EXCEPT ![r] = <<svg_data.index>>]
             /\ Goto(r, "da_svg")
             /\ IF ~Has(svg_data, "content")
                THEN UNCHANGED <<files, written, downloaded_svgs>>
                ELSE LET path == SvgPath(svg_data.index)
                     IN /\ files' = Put(files, path, [kind |-> "text", data |-> svg_data.content])
                        /\ written' = [written EXCEPT ![r] = Append(@, path)]
                        /\ downloaded_svgs' = [downloaded_svgs EXCEPT ![r] =
                                                 Append(@, Put(svg_data, "local_path", path))]
  /\ svg_j' = [svg_j EXCEPT ![r] = @ + 1]
  /\ running' = IF pc'[r] = "da_svg" THEN r ELSE NoOne
  /\ UNCHANGED <<vars_sw_data, all_images, img_i, downloaded_images, seen_hashes,
                 da_result, fetch_log>>

\* return {...} (extract_assets.py:223-229); in scrape_website the result
\* replaces assets_data (scrape_controller.py:101).
DA_Return(r) ==
  /\ pc[r] = "da_svg"
  /\ CanRun(r)
  /\ UNCHANGED <<vars_pages, vars_settle>>
  /\ svg_j[r] > Len(Get(assets_data[r], "svgs", <<>>))
  /\ LET res == [images |-> downloaded_images[r],
                 svgs |-> downloaded_svgs[r],
                 total_images |-> Len(downloaded_images[r]),
                 total_svgs |-> Len(downloaded_svgs[r]),
                 deduplicated |-> Deduplicated(Len(all_images[r]), Len(downloaded_images[r]))]
     IN /\ da_result' = [da_result EXCEPT ![r] = res]
        /\ IF req[r].caller = "endpoint"
           THEN /\ assets_data' = [assets_data EXCEPT ![r] = res]
                /\ Goto(r, "write_output")
                /\ running' = r
           ELSE /\ assets_data' = assets_data
                /\ Goto(r, "da_returned")
                /\ running' = NoOne
  /\ UNCHANGED <<req, browser, closes, nav, http_status, sw_result, content_data,
                 tokens_data, meta_data, all_images, img_i, downloaded_images,
                 seen_hashes, svg_j, downloaded_svgs, index, files, fetch_log, written>>

\* ------------------------------------------- scrape_website, the last part
OutputFiles == <<"output/content.json", "output/assets.json", "output/tokens.json",
                 "output/meta.json">>

\* The file system after the first n JSON snapshots of request r are written.
RECURSIVE WriteSnapshots(_, _, _)
WriteSnapshots(fs, r, n) ==
  IF n = 0 THEN fs
  ELSE Put(WriteSnapshots(fs, r, n - 1), OutputFiles[n], [kind |-> "json", data |-> r])

\* mkdir output, the four json.dump calls and the return value
\* (scrape_controller.py:104-129).  A write may fail after n files.
WriteOutput(r) ==
  /\ pc[r] = "write_output"
  /\ CanRun(r)
  /\ UNCHANGED <<vars_pages, vars_settle>>
  /\ \/ /\ files' = WriteSnapshots(files, r, Len(OutputFiles))
        /\ sw_result' = [sw_result EXCEPT ![r] =
                           [content |-> content_data[r], assets |-> assets_data[r],
                            tokens |-> tokens_data[r], meta |-> meta_data[r]]]
        /\ Goto(r, "finally")
     \/ \E n \in 0..(Len(OutputFiles) - 1) :
          /\ files' = WriteSnapshots(files, r, n)
          /\ sw_result' = sw_result
          /\ Jump(r, RaiseInTry("OSError", "write_output"))
  /\ running' = NoOne
  /\ UNCHANGED <<req, browser, closes, nav, http_status, content_data, assets_data,
                 tokens_data, meta_data, all_images, img_i, downloaded_images,
                 seen_hashes, svg_j, downloaded_svgs, index, da_result, fetch_log, written>>

\* finally: await browser.close() (scrape_controller.py:131-132); then the
\* return value or the pending exception leaves scrape_website.
Close(r) ==
  /\ pc[r] = "finally"
  /\ CanRun(r)
  /\ UNCHANGED <<vars_pages, vars_settle>>
  /\ browser' = [browser EXCEPT ![r] = "closed"]
  /\ closes' = [closes EXCEPT ![r] = @ + 1]
  /\ Goto(r, IF exc[r] = NoExc THEN "sw_returned" ELSE "sw_raised")
  /\ running' = r
  /\ UNCHANGED <<req, nav, http_status, sw_result, content_data, assets_data,
                 tokens_data, meta_data, vars_da>>

\* scrape_endpoint answers: the ScrapeResponse, or the HTTPException its
\* except clauses build (main.py:82-98).
Respond(r) ==
  /\ pc[r] \in {"sw_returned", "sw_raised"}
  /\ CanRun(r)
  /\ UNCHANGED <<vars_pages, vars_settle>>
  /\ http_status' = [http_status EXCEPT ![r] =
                       IF pc[r] = "sw_returned" THEN 200 ELSE scrape_endpoint_status(exc[r].cls)]
  /\ Goto(r, "responded")
  /\ running' = NoOne
  /\ UNCHANGED <<req, browser, closes, nav, sw_result, content_data, assets_data,
                 tokens_data, meta_data, vars_da>>

\* ------------------------------------------------------- specifications
\* Requests to POST /scrape, served concurrently on one event loop.
Next ==
  \E r \in Reqs :
    \/ scrape_endpoint(r)
    \/ Launch(r)
    \/ NewContext(r)
    \/ Navigate(r)
    \/ Settle(r)
    \/ SweepTick(r)
    \/ ScrollTop(r)
    \/ Settle2(r)
    \/ ExtractPass(r)
    \/ DA_Begin(r)
    \/ DA_Image(r)
    \/ DA_SessionClose(r)
    \/ DA_Svg(r)
    \/ DA_Return(r)
    \/ WriteOutput(r)
    \/ Close(r)
    \/ Respond(r)
Spec == Init /\ [][Next]_vars

\* One request to POST /scrape, for a page of any height, which may grow
\* while it is scrolled.
InitOne == InitCalls /\ AnyPage /\ IdleContent /\ IdleTokens /\ IdleAssets /\ IdleMeta
NextOne ==
  \/ scrape_endpoint("r1")
  \/ Launch("r1")
  \/ NewContext("r1")
  \/ Navigate("r1")
  \/ Settle("r1")
  \/ SweepTick("r1")
  \/ PageGrows("r1")
  \/ ScrollTop("r1")
  \/ Settle2("r1")
  \/ ExtractPass("r1")
  \/ DA_Begin("r1")
  \/ DA_Image("r1")
  \/ DA_SessionClose("r1")
  \/ DA_Svg("r1")
  \/ DA_Return("r1")
  \/ WriteOutput("r1")
  \/ Close("r1")
  \/ Respond("r1")
SpecOne == InitOne /\ [][NextOne]_vars

\* One request for any document, with or without a body.  The event loop
\* resumes a coroutine whose await has completed and the page's interval
\* timer keeps firing until it is cleared; nothing makes the browser fail.
InitSettle == InitCalls /\ AnyDocument /\ IdleContent /\ IdleTokens /\ IdleAssets /\ IdleMeta
FairSettle ==
  /\ WF_vars(Settle("r1"))
  /\ WF_vars(SweepTick("r1") /\ exc' = exc)
  /\ WF_vars(ScrollTop("r1"))
  /\ WF_vars(Settle2("r1"))
SpecSettle == InitSettle /\ [][NextOne]_vars /\ FairSettle

\* download_assets called on its own, on any records.
NextDA ==
  \/ download_assets("r1")
  \/ DA_Begin("r1")
  \/ DA_Image("r1")
  \/ DA_SessionClose("r1")
  \/ DA_Svg("r1")
  \/ DA_Return("r1")
SpecDA == Init /\ [][NextDA]_vars

\* ======================================================= extract_content
\* longest run of letters in a paragraph's text
MaxTextLen == 12
\* most <p> elements on a page
MaxParagraphs == 2
\* the length a paragraph must exceed (extract_content.py:56)
ParagraphFloor == 10

\* Text is a sequence of characters.
Rep(c, n) == [i \in 1..n |-> c]
IsSpace(c) == c \in {" ", "\n", "\t"}

\* String.prototype.trim (extract_content.py:33)
RECURSIVE trimStart(_)
trimStart(s) == IF s = <<>> THEN <<>> ELSE IF IsSpace(Head(s)) THEN trimStart(Tail(s)) ELSE s
RECURSIVE trimEnd(_)
trimEnd(s) ==
  IF s = <<>> THEN <<>>
  ELSE IF IsSpace(s[Len(s)]) THEN trimEnd(SubSeq(s, 1, Len(s) - 1)) ELSE s
trim(s) == trimEnd(trimStart(s))

\* el.innerText?.trim() || '' (extract_content.py:32-34)
getCleanText(el) == trim(el.innerText)

\* isVisible (extract_content.py:23-29)
isVisible_ignoresOpacity(el) ==
  el.display # "none" /\ el.visibility # "hidden" /\ el.offsetParent
isVisible(el) ==
  /\ el.display # "none"
  /\ el.visibility # "hidden"
  /\ el.opacity # "0"
  /\ el.offsetParent

\* text && text.length > 10 (extract_content.py:56)
KeepParagraph_atLeastFloor(text) == text # <<>> /\ Len(text) >= ParagraphFloor
KeepParagraph(text) == text # <<>> /\ Len(text) > ParagraphFloor

\* The pages considered: <p> elements with their computed style and text.
ShownStyle == [display |-> "block", visibility |-> "visible", opacity |-> "1", offsetParent |-> TRUE]
PStyles ==
  { ShownStyle,
    [ShownStyle EXCEPT !.display = "none", !.offsetParent = FALSE],
    [ShownStyle EXCEPT !.visibility = "hidden"],
    [ShownStyle EXCEPT !.opacity = "0"],
    [ShownStyle EXCEPT !.offsetParent = FALSE] }
PTexts ==
  { Rep(" ", l) \o Rep("a", n) \o Rep("\n", t) :
      l \in 0..1, n \in {0, 2} \cup ((ParagraphFloor - 1)..MaxTextLen), t \in 0..1 }
  \cup { <<"H", "i">>, Rep("a", 5) \o <<" ">> \o Rep("a", 5) \o <<"\t">> }
PElement(style, text) ==
  [display |-> style.display, visibility |-> style.visibility, opacity |-> style.opacity,
   offsetParent |-> style.offsetParent, innerText |-> text]
PElements == {PElement(st, t) : st \in PStyles, t \in PTexts}

\* the in-page script starts on some page (extract_content.py:12-20)
InitContent ==
  /\ ec_pc = "paragraphs"
  /\ ec_page \in SeqsUpTo(PElements, MaxParagraphs)
  /\ ec_k = 1
  /\ paragraphs = <<>>

\* one iteration of document.querySelectorAll('p').forEach
\* (extract_content.py:53-60)
EC_Paragraph ==
  /\ ec_pc = "paragraphs"
  /\ ec_k <= Len(ec_page)
  /\ LET el == ec_page[ec_k]
         text == getCleanText(el)
     IN paragraphs' = IF isVisible(el) /\ KeepParagraph(text)
                      THEN Append(paragraphs, text) ELSE paragraphs
  /\ ec_k' = ec_k + 1
  /\ UNCHANGED <<ec_pc, ec_page, vars_sw, vars_da, vars_et, vars_ea, vars_em>>

\* the forEach is over: return result (extract_content.py:117)
EC_Return ==
  /\ ec_pc = "paragraphs"
  /\ ec_k > Len(ec_page)
  /\ ec_pc' = "done"
  /\ UNCHANGED <<ec_page, ec_k, paragraphs, vars_sw, vars_da, vars_et, vars_ea, vars_em>>

NextContent == EC_Paragraph \/ EC_Return
\* extract_content run on its own, on any of the pages above
InitContentOnly == InitRequests /\ InitContent /\ IdleTokens /\ IdleAssets /\ IdleMeta
SpecContent == InitContentOnly /\ [][NextContent]_vars

\* ======================================================== extract_tokens
\* most elements sampled for colors
MaxElements == 12
\* number of distinct opaque colors a page may use
MaxColors == 12
\* most elements sampled for spacing
MaxSpacingElements == 6
\* number of distinct lengths a page may use for padding, margin and gap
MaxSpacingValues == 18
\* most elements of a page whose font sizes are chosen freely
MaxFontElements == 4
\* result.colors.<role>.slice(0, 10) (extract_tokens.py:142-145)
ColorCap == 10
\* result.spacing.slice(0, 15) (extract_tokens.py:146)
SpacingCap == 15

Roles == {"primary", "text", "background", "border"}

\* Computed color values: the canonical strings a browser reports.
Transparent == "rgba(0, 0, 0, 0)"
Rgb(n) == "rgb(" \o ToString(n) \o ", 0, 0)"
CanonicalColors == {Transparent} \cup {Rgb(n) : n \in 1..(MaxColors + 1)}
\* the computed border-color of an element whose sides differ: not a <color>
MixedBorder == "rgb(1, 0, 0) rgb(2, 0, 0)"
Px(v) == ToString(v) \o "px"

\* normalizeColor (extract_tokens.py:43-50): the value is assigned to the
\* color of a fresh child of <body> and read back; an assignment that is not a
\* <color> is ignored, and the child reports the color it inherits.
normalizeColor(color, inherited) == IF color \in CanonicalColors THEN color ELSE inherited

\* addUniqueColor (extract_tokens.py:53-58)
addUniqueColor_keepsTransparent(array, color, inherited) ==
  LET normalized == normalizeColor(color, inherited)
  IN IF normalized # "" /\ normalized \notin Range(array)
     THEN Append(array, normalized) ELSE array
addUniqueColor(array, color, inherited) ==
  LET normalized == normalizeColor(color, inherited)
  IN IF normalized # "" /\ normalized # Transparent /\ normalized \notin Range(array)
     THEN Append(array, normalized) ELSE array

\* ---- font sizes
\* A computed font-size is a string, here a sequence of characters.
DigitChars == <<"0", "1", "2", "3", "4", "5", "6", "7", "8", "9">>
IsDigit(c) == \E i \in DOMAIN DigitChars : DigitChars[i] = c
DigitVal(c) == (CHOOSE i \in DOMAIN DigitChars : DigitChars[i] = c) - 1

\* the longest prefix of s made of digits
RECURSIVE DigitPrefix(_)
DigitPrefix(s) ==
  IF s = <<>> \/ ~IsDigit(Head(s)) THEN <<>> ELSE <<Head(s)>> \o DigitPrefix(Tail(s))
\* the number a digit string denotes
RECURSIVE DigitsValue(_)
DigitsValue(ds) ==
  IF ds = <<>> THEN 0 ELSE 10 * DigitsValue(SubSeq(ds, 1, Len(ds) - 1)) + DigitVal(ds[Len(ds)])
RECURSIVE Pow10(_)
Pow10(n) == IF n = 0 THEN 1 ELSE 10 * Pow10(n - 1)

\* parseFloat (extract_tokens.py:139): the longest prefix that reads as a
\* decimal number, as the fraction num/den; NaN (den = 0) when there is none.
parseFloat(s) ==
  LET t == trimStart(s)
      int == DigitPrefix(t)
      rest == SubSeq(t, Len(int) + 1, Len(t))
      frac == IF rest # <<>> /\ Head(rest) = "." THEN DigitPrefix(Tail(rest)) ELSE <<>>
  IN IF int = <<>> /\ frac = <<>> THEN [num |-> 0, den |-> 0]
     ELSE [num |-> DigitsValue(int \o frac), den |-> Pow10(Len(frac))]

\* (a, b) => parseFloat(a) - parseFloat(b) (extract_tokens.py:139): the sign of
\* the difference; sort reads a NaN as 0.
compareSizes(a, b) ==
  LET x == parseFloat(a)
      y == parseFloat(b)
      d == x.num * y.den - y.num * x.den
  IN IF x.den = 0 \/ y.den = 0 THEN 0 ELSE IF d < 0 THEN -1 ELSE IF d > 0 THEN 1 ELSE 0

\* Array.prototype.sort with that comparator (extract_tokens.py:139).  The
\* sort is stable, and a stable sort has one result: each value goes behind
\* the values that do not compare greater.
RECURSIVE insertSorted(_, _)
insertSorted(sorted, x) ==
  IF sorted = <<>> THEN <<x>>
  ELSE IF compareSizes(sorted[Len(sorted)], x) > 0
  THEN Append(insertSorted(SubSeq(sorted, 1, Len(sorted) - 1), x), sorted[Len(sorted)])
  ELSE Append(sorted, x)
RECURSIVE sortFrom(_, _)
sortFrom(sorted, array) ==
  IF array = <<>> THEN sorted ELSE sortFrom(insertSorted(sorted, Head(array)), Tail(array))
sortSizes_discoveryOrder(array) == array
sortSizes(array) == sortFrom(<<>>, array)

\* if (fontSize && !seenSizes.has(fontSize)) { seenSizes.add(fontSize);
\* result.fonts.sizes.push(fontSize) } (extract_tokens.py:111-115)
pushSize(array, fontSize) ==
  IF fontSize # <<>> /\ fontSize \notin Range(array) THEN Append(array, fontSize) ELSE array

\* Array.prototype.slice(0, n)
slice0(array, n) == SubSeq(array, 1, IF Len(array) < n THEN Len(array) ELSE n)

\* el.tagName.startsWith('H') || el.tagName === 'P' || el.tagName === 'SPAN'
\* (extract_tokens.py:89)
IsTextTag(tagName) == tagName \in {"H1", "H2", "H3", "H4", "H5", "H6", "HEADER", "P", "SPAN"}

\* The calls of addUniqueColor made for one sampled element, in order, as
\* <<role, value>> (extract_tokens.py:87-102)
ColorCalls(el) ==
  ( IF el.tagName \in {"BODY", "HTML"} THEN << <<"background", el.backgroundColor>> >>
    ELSE IF IsTextTag(el.tagName) THEN << <<"text", el.color>> >>
    ELSE IF el.tagName = "BUTTON" \/ el.buttonClass
    THEN << <<"primary", el.backgroundColor>>, <<"primary", el.color>> >>
    ELSE <<>> )
  \o ( IF el.backgroundColor # "" /\ el.backgroundColor # Transparent
       THEN << <<"background", el.backgroundColor>> >> ELSE <<>> )
  \o ( IF el.borderColor # "" /\ el.borderColor # Transparent
       THEN << <<"border", el.borderColor>> >> ELSE <<>> )

\* result.colors after the calls `calls` are made from `cols`
RECURSIVE ApplyColorCalls(_, _, _)
ApplyColorCalls(cols, calls, inherited) ==
  IF calls = <<>> THEN cols
  ELSE ApplyColorCalls(
         [cols EXCEPT ![calls[1][1]] = addUniqueColor(@, calls[1][2], inherited)],
         Tail(calls), inherited)

\* The values pushed for one spacing element: padding, margin, gap in turn
\* (extract_tokens.py:130-135); seenSpacing holds what result.spacing holds.
RECURSIVE PushSpacing(_, _)
PushSpacing(sp, values) ==
  IF values = <<>> THEN sp
  ELSE PushSpacing(
         IF values[1] # "" /\ values[1] # "0px" /\ values[1] \notin Range(sp)
         THEN Append(sp, values[1]) ELSE sp,
         Tail(values))

\* ---- the pages considered
\* Computed font sizes are absolute lengths in px.
PxSize(digits) == digits \o <<"p", "x">>
FontSizeList ==
  << PxSize(<<"1", "6">>), PxSize(<<"9">>), PxSize(<<"1", "0", "0">>),
     PxSize(<<"1", "3", ".", "3">>), PxSize(<<"1", "0">>) >>
\* Element i of a page built from the parameters q: its tag, its colors.
ColorId(q, i) == 1 + ((i * q.stride) % q.modulus)
SampledElement(q, i) ==
  LET id == ColorId(q, i)
      c == IF q.colorMode = "someTransparent" /\ i = 3 THEN Transparent ELSE Rgb(id)
  IN [ tagName |-> CASE q.kind = "text" -> IF i % 2 = 1 THEN "P" ELSE "H1"
                     [] q.kind = "button" -> IF i % 2 = 1 THEN "BUTTON" ELSE "DIV"
                     [] OTHER -> <<"BODY", "A", "P", "DIV">>[1 + (i % 4)],
       buttonClass |-> (q.kind # "text" /\ i % 2 = 0),
       color |-> c,
       fontSize |-> FontSizeList[1 + (i % Len(FontSizeList))],
       backgroundColor |-> CASE q.bgMode = "transparent" -> Transparent
                             [] q.bgMode = "own" -> Rgb(1 + (id % MaxColors))
                             [] OTHER -> IF i % 2 = 1 THEN Transparent ELSE Rgb(1 + (id % MaxColors)),
       borderColor |-> CASE q.borderMode = "current" -> c
                         [] q.borderMode = "transparent" -> Transparent
                         [] OTHER -> IF i % 2 = 1 THEN MixedBorder ELSE c ]
ColorParams ==
  [ n : 0..MaxElements, modulus : 1..MaxColors, stride : {1, 5},
    kind : {"text", "button", "mixed"}, colorMode : {"opaque", "someTransparent"},
    bgMode : {"transparent", "own", "alternate"},
    borderMode : {"current", "transparent", "mixed"} ]
SampledElements(q) == [i \in 1..q.n |-> SampledElement(q, i)]

SpacingValue(q, v) == Px(v % q.modulus)
SpacingElement(q, i) ==
  [ padding |-> SpacingValue(q, 3 * i),
    margin |-> SpacingValue(q, 3 * i + 1),
    gap |-> IF i = 1 THEN "normal" ELSE SpacingValue(q, 3 * i + 2) ]
SpacingParams == [n : 0..MaxSpacingElements, modulus : 1..MaxSpacingValues]
SpacingElements(q) == [i \in 1..q.n |-> SpacingElement(q, i)]

\* a small page, used where the other half of the input varies
FewColors ==
  [n |-> 2, modulus |-> 2, stride |-> 1, kind |-> "text", colorMode |-> "opaque",
   bgMode |-> "own", borderMode |-> "current"]
ManySpacings == [n |-> MaxSpacingElements, modulus |-> MaxSpacingValues]
FewSpacings == [n |-> 1, modulus |-> 2]
\* a page whose elements have the font sizes fs, in document order
SizedElements(fs) == [i \in DOMAIN fs |-> [SampledElement(FewColors, i) EXCEPT !.fontSize = fs[i]]]

\* the in-page script starts on some page (extract_tokens.py:12-76)
InitTokens ==
  /\ et_pc = "sample"
  /\ \E inh \in {Transparent, Rgb(1)} :
       /\ et_inherited = inh
       /\ \/ \E q \in ColorParams :
               /\ et_elements = SampledElements(q)
               /\ et_spacing_elements = SpacingElements(ManySpacings)
          \/ \E q \in SpacingParams :
               /\ et_elements = SampledElements(FewColors)
               /\ et_spacing_elements = SpacingElements(q)
          \/ \E fs \in SeqsUpTo(Range(FontSizeList), MaxFontElements) :
               /\ et_elements = SizedElements(fs)
               /\ et_spacing_elements = SpacingElements(FewSpacings)
  /\ et_k = 1
  /\ colors = [primary |-> <<>>, text |-> <<>>, background |-> <<>>, border |-> <<>>]
  /\ spacing = <<>>
  /\ sizes = <<>>
  /\ et_log = <<>>

\* one iteration of elementsToSample.forEach, the colors (extract_tokens.py:78-102)
ET_Sample ==
  /\ et_pc = "sample"
  /\ et_k <= Len(et_elements)
  /\ LET calls == ColorCalls(et_elements[et_k])
     IN /\ colors' = ApplyColorCalls(colors, calls, et_inherited)
        /\ et_log' = et_log \o [i \in DOMAIN calls |->
                                  [role |-> calls[i][1],
                                   color |-> normalizeColor(calls[i][2], et_inherited)]]
  /\ sizes' = pushSize(sizes, et_elements[et_k].fontSize)
  /\ et_k' = et_k + 1
  /\ UNCHANGED <<et_pc, et_elements, et_inherited, et_spacing_elements, spacing,
                 vars_sw, vars_da, vars_ec, vars_ea, vars_em>>

\* the sampling is over; querySelectorAll for the spacing elements
\* (extract_tokens.py:125-126)
ET_SampleDone ==
  /\ et_pc = "sample"
  /\ et_k > Len(et_elements)
  /\ et_pc' = "spacing"
  /\ et_k' = 1
  /\ UNCHANGED <<et_elements, et_inherited, et_spacing_elements, colors, spacing, sizes,
                 et_log, vars_sw, vars_da, vars_ec, vars_ea, vars_em>>

\* one iteration of spacingElements.forEach (extract_tokens.py:128-136)
ET_Spacing ==
  /\ et_pc = "spacing"
  /\ et_k <= Len(et_spacing_elements)
  /\ LET el == et_spacing_elements[et_k]
     IN spacing' = PushSpacing(spacing, <<el.padding, el.margin, el.gap>>)
  /\ et_k' = et_k + 1
  /\ UNCHANGED <<et_pc, et_elements, et_inherited, et_spacing_elements, colors, sizes,
                 et_log, vars_sw, vars_da, vars_ec, vars_ea, vars_em>>

\* "Sort font sizes numerically", "Limit results": the sort, the slices, and
\* return result (extract_tokens.py:138-148)
LimitColors_noCap(array) == array
LimitColors(array) == slice0(array, ColorCap)
ET_Limit ==
  /\ et_pc = "spacing"
  /\ et_k > Len(et_spacing_elements)
  /\ colors' = [role \in Roles |-> LimitColors(colors[role])]
  /\ spacing' = slice0(spacing, SpacingCap)
  /\ sizes' = sortSizes(sizes)
  /\ et_pc' = "done"
  /\ UNCHANGED <<et_elements, et_inherited, et_spacing_elements, et_k, et_log,
                 vars_sw, vars_da, vars_ec, vars_ea, vars_em>>

NextTokens == ET_Sample \/ ET_SampleDone \/ ET_Spacing \/ ET_Limit
\* extract_tokens run on its own, on any of the pages above
InitTokensOnly == InitRequests /\ IdleContent /\ InitTokens /\ IdleAssets /\ IdleMeta
SpecTokens == InitTokensOnly /\ [][NextTokens]_vars

\* ========================================================= extract_assets
\* most <img> elements on a page
MaxImgElements == 2
\* most srcset candidates of one <img>
MaxSrcset == 1
\* most elements of a page that have a background-image
MaxBgElements == 2

\* the page's URL, handed to the script as baseUrl (extract_assets.py:22, 112)
BaseUrl == Url("https", "page", "")

\* A reference as written in the page: an absolute URL, a path relative to
\* the page, the empty string, or text that no URL can be made of.
AbsRef(u) == [form |-> "absolute", href |-> u]
RelRef(name, ext) == [form |-> "relative", name |-> name, ext |-> ext]
EmptyRef == [form |-> "empty"]
InvalidRef == [form |-> "invalid"]
NoAttr == [form |-> "null"]

\* resolveUrl (extract_assets.py:32-38): new URL(url, baseUrl).href, or null
\* (here <<>>) when the constructor throws.
resolveUrl(ref) ==
  CASE ref.form = "absolute" -> <<ref.href>>
    [] ref.form = "relative" -> <<Url(BaseUrl.scheme, ref.name, ref.ext)>>
    [] ref.form = "empty" -> <<BaseUrl>>
    [] OTHER -> <<>>

\* a value that JavaScript reads as true: neither null nor ''
Truthy(ref) == ref.form \notin {"null", "empty"}

\* if (fullUrl && !seen.has(fullUrl)) { seen.add(fullUrl); result.<list>.push(
\* {url: fullUrl, ..., type: <type>}) } (extract_assets.py:48-57, 65-72, 86-93)
\* on st = [seen, result, log]
addAsset_noSeenCheck(st, ref, list, type) ==
  LET fullUrl == resolveUrl(ref)
      met == [st EXCEPT !.log = Append(@, [ref |-> ref, type |-> type])]
  IN IF fullUrl # <<>>
     THEN [met EXCEPT !.seen = @ \cup {fullUrl[1]},
                      !.result[list] = Append(@, [url |-> fullUrl[1], type |-> type])]
     ELSE met
addAsset(st, ref, list, type) ==
  LET fullUrl == resolveUrl(ref)
      met == [st EXCEPT !.log = Append(@, [ref |-> ref, type |-> type])]
  IN IF fullUrl # <<>> /\ fullUrl[1] \notin st.seen
     THEN [met EXCEPT !.seen = @ \cup {fullUrl[1]},
                      !.result[list] = Append(@, [url |-> fullUrl[1], type |-> type])]
     ELSE met

\* srcset.split(',').forEach(...) (extract_assets.py:61-74)
RECURSIVE addSrcset(_, _)
addSrcset(st, candidates) ==
  IF candidates = <<>> THEN st
  ELSE addSrcset(addAsset(st, Head(candidates), "images", "srcset"), Tail(candidates))

\* ---- the pages considered
\* values of the src and data-src attributes of an <img>
SrcAttrs == {NoAttr, EmptyRef, AbsRef(UrlA), RelRef("a", ".png"), AbsRef(UrlData), InvalidRef}
DataSrcAttrs == {NoAttr, RelRef("b", ".PNG")}
\* the candidates of a srcset attribute; a trailing comma leaves an empty one
SrcsetCandidates == {AbsRef(UrlA), RelRef("b", ".PNG"), InvalidRef, EmptyRef}
\* computed background-image values: none, an image that is no url(), or a
\* url() holding an absolute URL
BgImages ==
  {[kind |-> "none"], [kind |-> "gradient"],
   [kind |-> "url", ref |-> AbsRef(UrlA)], [kind |-> "url", ref |-> AbsRef(UrlC)]}

\* the in-page script starts (extract_assets.py:22-29)
InitAssets ==
  /\ ea_pc = "imgs"
  /\ ea_k = 0
  /\ ea_seen = {}
  /\ ea_result = [images |-> <<>>, svgs |-> <<>>, backgrounds |-> <<>>]
  /\ ea_log = <<>>

EA_State == [seen |-> ea_seen, result |-> ea_result, log |-> ea_log]
EA_Set(st) ==
  /\ ea_seen' = st.seen
  /\ ea_result' = st.result
  /\ ea_log' = st.log

\* one iteration of document.querySelectorAll('img').forEach
\* (extract_assets.py:41-75)
EA_Img ==
  /\ ea_pc = "imgs"
  /\ ea_k < MaxImgElements
  /\ \E src_attr \in SrcAttrs, data_src \in DataSrcAttrs,
        srcset \in SeqsUpTo(SrcsetCandidates, MaxSrcset) :
       LET src == IF Truthy(src_attr) THEN src_attr ELSE data_src
           st1 == IF Truthy(src) THEN addAsset(EA_State, src, "images", "img") ELSE EA_State
       IN EA_Set(addSrcset(st1, srcset))
  /\ ea_k' = ea_k + 1
  /\ UNCHANGED <<ea_pc, vars_sw, vars_da, vars_ec, vars_et, vars_em>>

\* the page has no further <img>; querySelectorAll('*') (extract_assets.py:78)
EA_ImgsDone ==
  /\ ea_pc = "imgs"
  /\ ea_pc' = "backgrounds"
  /\ ea_k' = 0
  /\ UNCHANGED <<ea_seen, ea_result, ea_log, vars_sw, vars_da, vars_ec, vars_et, vars_em>>

\* one iteration of document.querySelectorAll('*').forEach, on an element
\* (extract_assets.py:78-96)
EA_Background ==
  /\ ea_pc = "backgrounds"
  /\ ea_k < MaxBgElements
  /\ \E bgImage \in BgImages :
       IF bgImage.kind = "url"
       THEN EA_Set(addAsset(EA_State, bgImage.ref, "backgrounds", "background"))
       ELSE UNCHANGED <<ea_seen, ea_result, ea_log>>
  /\ ea_k' = ea_k + 1
  /\ UNCHANGED <<ea_pc, vars_sw, vars_da, vars_ec, vars_et, vars_em>>

\* the page has no further element; querySelectorAll('svg')
\* (extract_assets.py:99)
EA_BackgroundsDone ==
  /\ ea_pc = "backgrounds"
  /\ ea_pc' = "svgs"
  /\ ea_k' = 0
  /\ UNCHANGED <<ea_seen, ea_result, ea_log, vars_sw, vars_da, vars_ec, vars_et, vars_em>>

\* one iteration of document.querySelectorAll('svg').forEach((svg, index) ...)
\* (extract_assets.py:99-108)
EA_Svg ==
  /\ ea_pc = "svgs"
  /\ ea_k < MaxSvgs
  /\ \E svgContent \in SvgMarkup :
       ea_result' = [ea_result EXCEPT !.svgs = Append(@, SvgRec(ea_k, svgContent))]
  /\ ea_k' = ea_k + 1
  /\ UNCHANGED <<ea_pc, ea_seen, ea_log, vars_sw, vars_da, vars_ec, vars_et, vars_em>>

\* return result (extract_assets.py:110)
EA_Return ==
  /\ ea_pc = "svgs"
  /\ ea_pc' = "done"
  /\ UNCHANGED <<ea_k, ea_seen, ea_result, ea_log, vars_sw, vars_da, vars_ec, vars_et, vars_em>>

NextAssets ==
  \/ EA_Img
  \/ EA_ImgsDone
  \/ EA_Background
  \/ EA_BackgroundsDone
  \/ EA_Svg
  \/ EA_Return
\* extract_assets run on its own, on any of the pages above
InitAssetsOnly == InitRequests /\ IdleContent /\ IdleTokens /\ InitAssets /\ IdleMeta
SpecAssets == InitAssetsOnly /\ [][NextAssets]_vars

\* The record extract_assets returned is handed to download_assets, as
\* scrape_website does: assets_data = await extract_assets(page, url), then
\* await download_assets(assets_data, convert_to_webp)
\* (scrape_controller.py:94, 99-101).
download_located(r) ==
  /\ pc[r] = "idle"
  /\ ea_pc = "done"
  /\ CanRun(r)
  /\ \E cw \in BOOLEAN :
       req' = [req EXCEPT ![r] = [caller |-> "direct", save_assets |-> TRUE, convert_to_webp |-> cw]]
  /\ assets_data' = [assets_data EXCEPT ![r] = ea_result]
  /\ Goto(r, "da_begin")
  /\ running' = r
  /\ UNCHANGED <<browser, closes, nav, http_status, sw_result, content_data,
                 tokens_data, meta_data, vars_da, vars_pages, vars_settle>>

\* extract_assets on a page without <img> elements, then download_assets on
\* what it located.
NextLocated ==
  \/ EA_ImgsDone
  \/ EA_Background
  \/ EA_BackgroundsDone
  \/ EA_Svg
  \/ EA_Return
  \/ download_located("r1")
  \/ DA_Begin("r1")
  \/ DA_Image("r1")
  \/ DA_SessionClose("r1")
  \/ DA_Svg("r1")
  \/ DA_Return("r1")
SpecLocated == InitAssetsOnly /\ [][NextLocated]_vars

\* =========================================================== extract_meta
\* most <meta> elements on a page
MaxMetas == 2

\* Attribute values are strings, here sequences of characters.
LowerLetters == <<"a", "b", "c", "d", "e", "f", "g", "h", "i", "j", "k", "l", "m">> \o
                <<"n", "o", "p", "q", "r", "s", "t", "u", "v", "w", "x", "y", "z">>
UpperLetters == <<"A", "B", "C", "D", "E", "F", "G", "H", "I", "J", "K", "L", "M">> \o
                <<"N", "O", "P", "Q", "R", "S", "T", "U", "V", "W", "X", "Y", "Z">>

\* String.prototype.toLowerCase (extract_meta.py:37)
LowerChar(c) ==
  IF \E i \in DOMAIN UpperLetters : UpperLetters[i] = c
  THEN LowerLetters[CHOOSE i \in DOMAIN UpperLetters : UpperLetters[i] = c]
  ELSE c
toLowerCase(s) == [i \in DOMAIN s |-> LowerChar(s[i])]
\* String.prototype.startsWith, substring(n) (extract_meta.py:51-52, 57-58)
startsWith(s, prefix) == Len(s) >= Len(prefix) /\ SubSeq(s, 1, Len(prefix)) = prefix
substring(s, n) == SubSeq(s, n + 1, Len(s))
\* content.split(',') (extract_meta.py:43)
RECURSIVE split(_, _)
split(s, sep) ==
  IF \A i \in DOMAIN s : s[i] # sep THEN <<s>>
  ELSE LET i == CHOOSE j \in DOMAIN s : s[j] = sep /\ \A h \in 1..(j - 1) : s[h] # sep
       IN <<SubSeq(s, 1, i - 1)>> \o split(SubSeq(s, i + 1, Len(s)), sep)
\* a string that JavaScript reads as true: neither null nor ''
TruthyStr(v) == v # JsNull /\ v # <<>>
\* a || b
OrElse(a, b) == IF TruthyStr(a) THEN a ELSE b

\* the prefixes and names the script tests for (extract_meta.py:40-57)
OgPrefix == <<"o", "g", ":">>
TwitterPrefix == <<"t", "w", "i", "t", "t", "e", "r", ":">>
S_description == <<"d", "e", "s", "c", "r", "i", "p", "t", "i", "o", "n">>
S_keywords == <<"k", "e", "y", "w", "o", "r", "d", "s">>
S_author == <<"a", "u", "t", "h", "o", "r">>
S_language == <<"l", "a", "n", "g", "u", "a", "g", "e">>
S_lang == <<"l", "a", "n", "g">>

\* The body of the forEach for one <meta> element (extract_meta.py:32-60)
\* on result res.  The standard names are compared in lower case; the og: and
\* twitter: prefixes are looked for in the name as written.
routeMeta(res, meta) ==
  LET name == OrElse(meta.name, meta.property)
      content == meta.content
      lowerName == toLowerCase(name)
      std == IF lowerName = S_description THEN [res EXCEPT !.description = content]
             ELSE IF lowerName = S_keywords
             THEN [res EXCEPT !.keywords = [i \in DOMAIN split(content, ",") |-> trim(split(content, ",")[i])]]
             ELSE IF lowerName = S_author THEN [res EXCEPT !.author = content]
             ELSE IF lowerName = S_language \/ lowerName = S_lang THEN [res EXCEPT !.language = content]
             ELSE res
      og == IF startsWith(name, OgPrefix)
            THEN [std EXCEPT !.opengraph = Put(@, substring(name, Len(OgPrefix)), content)]
            ELSE std
  IN IF ~TruthyStr(name) \/ ~TruthyStr(content) THEN res
     ELSE IF startsWith(name, TwitterPrefix)
     THEN [og EXCEPT !.twitter = Put(@, substring(name, Len(TwitterPrefix)), content)]
     ELSE og

\* ---- the pages considered
\* names of <meta> elements, in several letter cases
MetaNames ==
  { <<"d", "e", "s", "c", "r", "i", "p", "t", "i", "o", "n">>,
    <<"D", "e", "s", "c", "r", "i", "p", "t", "i", "o", "n">>,
    <<"k", "e", "y", "w", "o", "r", "d", "s">>,
    <<"a", "u", "t", "h", "o", "r">>,
    <<"l", "a", "n", "g", "u", "a", "g", "e">>,
    <<"L", "A", "N", "G">>,
    <<"v", "i", "e", "w", "p", "o", "r", "t">>,
    <<"o", "g", ":", "t", "i", "t", "l", "e">>,
    <<"O", "G", ":", "t", "i", "t", "l", "e">>,
    <<"O", "g", ":", "T", "y", "p", "e">>,
    <<"t", "w", "i", "t", "t", "e", "r", ":", "c", "a", "r", "d">>,
    <<"T", "w", "i", "t", "t", "e", "r", ":", "c", "a", "r", "d">> }
MetaElements ==
  [name : MetaNames \cup {JsNull},
   property : {JsNull, <<"O", "G", ":", "t", "i", "t", "l", "e">>},
   content : {JsNull, <<>>, <<"x">>, <<"a", ",", " ", "b">>}]

\* the in-page script starts: result.title = document.title || ''
\* (extract_meta.py:14-28)
InitMeta ==
  /\ em_pc = "metas"
  /\ em_k = 0
  /\ \E title \in {<<>>, <<"T">>} : em_result = [EmptyMeta EXCEPT !.title = title]
  /\ em_log = <<>>

\* one iteration of document.querySelectorAll('meta').forEach
\* (extract_meta.py:31-61)
EM_Meta ==
  /\ em_pc = "metas"
  /\ em_k < MaxMetas
  /\ \E meta \in MetaElements :
       /\ em_result' = routeMeta(em_result, meta)
       /\ em_log' = Append(em_log, meta)
  /\ em_k' = em_k + 1
  /\ UNCHANGED <<em_pc, vars_sw, vars_da, vars_ec, vars_et, vars_ea>>

\* the page has no further <meta>: canonical, favicon, the language of the
\* <html> element, and return result (extract_meta.py:63-81)
EM_Return ==
  /\ em_pc = "metas"
  /\ \E canonical \in {JsNull, <<"/", "c">>}, icon \in {JsNull, <<"/", "c">>}, shortcut \in {JsNull, <<"/", "c">>}, lang \in {<<>>, <<"e", "n">>} :
       em_result' = [em_result EXCEPT
                       !.canonical = canonical,
                       !.favicon = IF icon # JsNull THEN icon ELSE shortcut,
                       !.language = IF TruthyStr(@) THEN @ ELSE OrElse(lang, JsNull)]
  /\ em_pc' = "done"
  /\ UNCHANGED <<em_k, em_log, vars_sw, vars_da, vars_ec, vars_et, vars_ea>>

NextMeta == EM_Meta \/ EM_Return
\* extract_meta run on its own, on any of the pages above
InitMetaOnly == InitRequests /\ IdleContent /\ IdleTokens /\ IdleAssets /\ InitMeta
SpecMeta == InitMetaOnly /\ [][NextMeta]_vars

\* ================================================================ claims
\* Entries of the result and the candidates they come from
Materialized(outcome) == outcome \in {"hit", "converted", "fallback", "original"}
\* the position in downloaded_images of the entry made for candidate k
Rank(r, k) == Cardinality({j \in 1..k : Materialized(fetch_log[r][j].outcome)})
EntryOf(r, k) == downloaded_images[r][Rank(r, k)]
LeftScrapeWebsite(r) == pc[r] \in {"sw_returned", "sw_raised", "responded"}

\* C1: whenever scrape_website has returned or raised and its browser was
\* launched, the browser is closed and browser.close() ran exactly once; it
\* never runs twice.
C1_BrowserClosedOnExit ==
  \A r \in Reqs :
    /\ closes[r] <= 1
    /\ (LeftScrapeWebsite(r) /\ browser[r] # "none") =>
         (browser[r] = "closed" /\ closes[r] = 1)
\* one request left through a failure inside download_assets, the other
\* through a failed snapshot write, both with the browser closed
C1_Witness ==
  /\ pc["r1"] = "responded" /\ exc["r1"].at = "mkdir" /\ browser["r1"] = "closed"
  /\ pc["r2"] = "sw_raised" /\ exc["r2"].at = "write_output" /\ browser["r2"] = "closed"

\* C2: no fault of a single image or SVG record leaves download_assets: the
\* call never ends with an exception raised in the image loop or the SVG loop.
C2_NoAssetFaultPropagates ==
  \A r \in Reqs : pc[r] = "da_raised" => exc[r].at \notin {"image", "svg"}

\* C3: two candidates of one call with distinct URLs and identical fetched
\* bytes get the same local_path, the one given to the first candidate with
\* those bytes; the call wrote exactly one file for those bytes and its table
\* holds exactly one entry for them.
C3_IdenticalBytesOneFile ==
  \A r \in Reqs : \A j, k \in DOMAIN fetch_log[r] :
    ( /\ j < k
      /\ Materialized(fetch_log[r][j].outcome) /\ Materialized(fetch_log[r][k].outcome)
      /\ fetch_log[r][j].body = fetch_log[r][k].body
      /\ EntryOf(r, j).url # EntryOf(r, k).url )
    => LET body == fetch_log[r][j].body
           first == CHOOSE f \in 1..j :
                      /\ Materialized(fetch_log[r][f].outcome) /\ fetch_log[r][f].body = body
                      /\ \A g \in 1..(f - 1) :
                           ~(Materialized(fetch_log[r][g].outcome) /\ fetch_log[r][g].body = body)
           path == EntryOf(r, first).local_path
       IN /\ EntryOf(r, j).local_path = path
          /\ EntryOf(r, k).local_path = path
          /\ Cardinality({i \in DOMAIN written[r] : files[written[r][i]].data = body}) = 1
          /\ {i \in DOMAIN written[r] : files[written[r][i]].data = body}
               = {i \in DOMAIN written[r] : written[r][i] = path}
          /\ Has(seen_hashes[r], md5(body)) /\ seen_hashes[r][md5(body)] = path
          /\ Cardinality({h \in DOMAIN seen_hashes[r] : seen_hashes[r][h] = path}) = 1
\* a .png and a .svg URL served the same bytes, both in the result
C3_Witness ==
  /\ Len(downloaded_images["r1"]) = 2
  /\ downloaded_images["r1"][1].url = UrlA /\ downloaded_images["r1"][2].url = UrlC
  /\ fetch_log["r1"][1].body = fetch_log["r1"][2].body
  /\ req["r1"].convert_to_webp

\* C4: a navigation that timed out or could not reach the host is answered
\* with HTTP 504.
C4_NavigationFailureIs504 ==
  \A r \in Reqs :
    (pc[r] = "responded" /\ nav[r] \in {"timeout", "unreachable"}) => http_status[r] = 504

\* every candidate of a non-empty list was fetched and answered with an error status
AllFetchesFailed(r) ==
  /\ Len(all_images[r]) > 0
  /\ Len(fetch_log[r]) = Len(all_images[r])
  /\ \A k \in DOMAIN fetch_log[r] : fetch_log[r][k].status >= 400
\* C5: when the fetch of every candidate of a non-empty list came back with an
\* error status, download_assets returns total_images = 0, no images and
\* deduplicated = number of candidates; scrape_website then goes on to write
\* its snapshots and returns the four records, unless a snapshot write fails.
C5_AllFetchesFailStillSucceeds ==
  \A r \in Reqs :
    (AllFetchesFailed(r) /\ pc[r] \notin {"da_image", "da_svg"}) =>
      /\ da_result[r] # EmptyDict
      /\ da_result[r].total_images = 0
      /\ da_result[r].images = <<>>
      /\ da_result[r].deduplicated = Len(all_images[r])
      /\ pc[r] = "sw_raised" => exc[r].at = "write_output"
      /\ pc[r] = "sw_returned" =>
           /\ DOMAIN sw_result[r] = {"content", "assets", "tokens", "meta"}
           /\ sw_result[r].assets = da_result[r]
\* a page with two images, both answered 404, and scrape_website returned
C5_Witness ==
  /\ pc["r1"] = "sw_returned"
  /\ Len(all_images["r1"]) = 2
  /\ \A k \in 1..2 : fetch_log["r1"][k].status = 404
  /\ sw_result["r1"].assets.deduplicated = 2

\* C6: 'deduplicated' is the number of candidates minus the number of entries
\* of the content-hash table (the files stored).
C6_DeduplicatedCountsUniqueFiles ==
  \A r \in Reqs :
    pc[r] = "da_returned" =>
      da_result[r].deduplicated = Len(all_images[r]) - Cardinality(DOMAIN seen_hashes[r])

\* C7: every image entry of the result has a local_path and a boolean
\* 'converted'.
C7_EntriesCarryConvertedFlag ==
  \A r \in Reqs : \A k \in DOMAIN downloaded_images[r] :
    /\ Has(downloaded_images[r][k], "local_path")
    /\ Has(downloaded_images[r][k], "converted")
    /\ downloaded_images[r][k].converted \in BOOLEAN

\* C8: the dedup decision for a fetched candidate depends only on the
\* candidates fetched earlier in the same call: it is a hit exactly when an
\* earlier candidate of this call had the same bytes, and the call's table
\* holds exactly the hashes of the bytes this call fetched (so it is empty
\* when the call starts), whatever the other request has in its table.
C8_TableScopedToCall ==
  \A r \in Reqs :
    /\ \A k \in DOMAIN fetch_log[r] :
         StatusOk(fetch_log[r][k].status) =>
           (fetch_log[r][k].outcome = "hit" <=>
              \E j \in 1..(k - 1) : /\ StatusOk(fetch_log[r][j].status)
                                    /\ fetch_log[r][j].body = fetch_log[r][k].body)
    /\ DOMAIN seen_hashes[r] =
         {md5(fetch_log[r][k].body) : k \in {i \in DOMAIN fetch_log[r] : StatusOk(fetch_log[r][i].status)}}
\* r2 stored bytes whose hash r1's table already held
C8_Witness ==
  /\ Len(fetch_log["r1"]) >= 1 /\ Len(fetch_log["r2"]) >= 1
  /\ Has(seen_hashes["r1"], md5("x"))
  /\ fetch_log["r2"][Len(fetch_log["r2"])].body = "x"
  /\ fetch_log["r2"][Len(fetch_log["r2"])].outcome \in {"converted", "original"}
  /\ pc["r1"] = "da_image" /\ pc["r2"] = "da_image"

\* t is s without its leading and trailing whitespace
IsTrimOf(t, s) ==
  \E a \in 0..Len(s), b \in 0..Len(s) :
    /\ a + b <= Len(s)
    /\ t = SubSeq(s, a + 1, Len(s) - b)
    /\ \A i \in 1..a : IsSpace(s[i])
    /\ \A i \in (Len(s) - b + 1)..Len(s) : IsSpace(s[i])
    /\ t # <<>> => (~IsSpace(t[1]) /\ ~IsSpace(t[Len(t)]))

\* C9: every entry of paragraphs is the trimmed text of a <p> element already
\* visited whose display is not none, visibility not hidden, opacity not 0 and
\* which has an offsetParent; the entry is longer than 10 characters, not empty
\* and not all whitespace; a page whose only paragraph is "Hi" yields no entry.
C9_ParagraphsVisibleAndLong ==
  /\ \A i \in DOMAIN paragraphs :
       /\ Len(paragraphs[i]) > 10
       /\ \E c \in Range(paragraphs[i]) : ~IsSpace(c)
       /\ \E k \in 1..(ec_k - 1) :
            /\ ec_page[k].display # "none"
            /\ ec_page[k].visibility # "hidden"
            /\ ec_page[k].opacity # "0"
            /\ ec_page[k].offsetParent
            /\ IsTrimOf(paragraphs[i], ec_page[k].innerText)
  /\ (ec_pc = "done" /\ Len(ec_page) = 1 /\ ec_page[1].innerText = <<"H", "i">>) =>
       paragraphs = <<>>
\* a shown "Hi" followed by a shown, padded text of 11 letters: one entry
C9_Witness ==
  /\ ec_pc = "done"
  /\ ec_page = << PElement(ShownStyle, <<"H", "i">>),
                  PElement(ShownStyle, <<" ">> \o Rep("a", 11) \o <<"\n">>) >>
  /\ paragraphs = << Rep("a", 11) >>

\* the first call of addUniqueColor for `role` that produced color c
FirstCall(role, c) ==
  CHOOSE i \in DOMAIN et_log :
    /\ et_log[i].role = role /\ et_log[i].color = c
    /\ \A j \in 1..(i - 1) : ~(et_log[j].role = role /\ et_log[j].color = c)

\* C10: in the record returned by extract_tokens each of the four color lists
\* has at most 10 entries, no entry twice, never 'rgba(0, 0, 0, 0)', and its
\* entries stand in the order in which they were first discovered; the spacing
\* list has at most 15 entries and never '0px'.
C10_TokenListsCapped ==
  et_pc = "done" =>
    /\ \A role \in Roles :
         /\ Len(colors[role]) <= 10
         /\ \A a, b \in DOMAIN colors[role] : a # b => colors[role][a] # colors[role][b]
         /\ \A a \in DOMAIN colors[role] :
              /\ colors[role][a] # "rgba(0, 0, 0, 0)"
              /\ \E i \in DOMAIN et_log : et_log[i].role = role /\ et_log[i].color = colors[role][a]
         /\ \A a, b \in DOMAIN colors[role] :
              a < b => FirstCall(role, colors[role][a]) < FirstCall(role, colors[role][b])
    /\ Len(spacing) <= 15
    /\ \A a \in DOMAIN spacing : spacing[a] # "0px"
\* more than 10 text colors and more than 15 spacings were discovered, a
\* transparent text color and a zero length among them, and the lists came
\* back cut to 10 and 15
C10_Witness ==
  /\ et_pc = "done"
  /\ Len(colors.text) = 10
  /\ Cardinality({et_log[i].color : i \in {j \in DOMAIN et_log : et_log[j].role = "text"}}) > 11
  /\ \E i \in DOMAIN et_log : et_log[i].role = "text" /\ et_log[i].color = Transparent
  /\ \E i \in DOMAIN et_log : et_log[i].role = "border" /\ et_log[i].color = Transparent
  /\ Len(spacing) = 15
  /\ \E k \in DOMAIN et_spacing_elements : et_spacing_elements[k].padding = "0px"

\* the leading numeric value of size string a is at most that of b
NumericLeq(a, b) ==
  LET x == parseFloat(a)
      y == parseFloat(b)
  IN x.den # 0 /\ y.den # 0 /\ x.num * y.den <= y.num * x.den
\* C11: in the record returned by extract_tokens the font-size list is in
\* non-decreasing order of the leading numeric value of its strings, holds no
\* string twice, and holds exactly the distinct font sizes of the sampled
\* elements, whatever the order in which they were met.
C11_FontSizesSorted ==
  et_pc = "done" =>
    /\ \A a, b \in DOMAIN sizes : a < b => NumericLeq(sizes[a], sizes[b])
    /\ \A a, b \in DOMAIN sizes : a # b => sizes[a] # sizes[b]
    /\ Range(sizes) = {et_elements[k].fontSize : k \in DOMAIN et_elements}
\* 16px, 9px, 16px, 100px, met in that order, came back as 9px, 16px, 100px
C11_Witness ==
  /\ et_pc = "done"
  /\ [k \in DOMAIN et_elements |-> et_elements[k].fontSize]
       = << PxSize(<<"1", "6">>), PxSize(<<"9">>), PxSize(<<"1", "6">>), PxSize(<<"1", "0", "0">>) >>
  /\ sizes = << PxSize(<<"9">>), PxSize(<<"1", "6">>), PxSize(<<"1", "0", "0">>) >>

\* the entries a traversal that met the references `log` records: for each
\* reference that resolves to a URL no earlier reference resolved to, the URL
\* and the type of that occurrence
RECURSIVE FirstOccurrences(_, _)
FirstOccurrences(log, before) ==
  IF log = <<>> THEN <<>>
  ELSE LET u == resolveUrl(Head(log).ref)
       IN IF u = <<>> \/ u[1] \in before
          THEN FirstOccurrences(Tail(log), before)
          ELSE <<[url |-> u[1], type |-> Head(log).type]>>
                 \o FirstOccurrences(Tail(log), before \cup {u[1]})
\* C12: at every point of extract_assets no absolute URL stands twice in
\* images and backgrounds together; the two lists hold, in traversal order,
\* the first occurrence of each URL met so far (with the type of that
\* occurrence) and nothing else, so a reference that does not resolve leaves
\* no entry; and the traversal goes on after such a reference.
C12_UrlRecordedOnce ==
  LET both == ea_result.images \o ea_result.backgrounds
  IN /\ \A a, b \in DOMAIN both : a # b => both[a].url # both[b].url
     /\ both = FirstOccurrences(ea_log, {})
     /\ \A a \in DOMAIN ea_result.images : ea_result.images[a].type \in {"img", "srcset"}
     /\ \A a \in DOMAIN ea_result.backgrounds : ea_result.backgrounds[a].type = "background"
\* a.png was met as an absolute src, again as a relative src of a later img
\* and again as a background, next to a srcset candidate that does not
\* resolve: one entry for a.png, and the pass returned
C12_Witness ==
  /\ ea_pc = "done"
  /\ ea_log = << [ref |-> AbsRef(UrlA), type |-> "img"],
                 [ref |-> InvalidRef, type |-> "srcset"],
                 [ref |-> RelRef("a", ".png"), type |-> "img"],
                 [ref |-> RelRef("b", ".PNG"), type |-> "srcset"],
                 [ref |-> AbsRef(UrlA), type |-> "background"],
                 [ref |-> AbsRef(UrlC), type |-> "background"] >>
  /\ ea_result.images = << [url |-> UrlA, type |-> "img"], [url |-> UrlB, type |-> "srcset"] >>
  /\ ea_result.backgrounds = << [url |-> UrlC, type |-> "background"] >>

\* the passes in the order of the code, each as its call and its return
PassNames == <<"extract_content", "extract_assets", "extract_tokens", "extract_meta">>
PassOrder ==
  [i \in 1..(2 * Len(PassNames)) |->
     IF i % 2 = 1 THEN "start:" \o PassNames[(i + 1) \div 2] ELSE "return:" \o PassNames[i \div 2]]
IsPassEvent(e) == e \in Range(PassOrder) \cup {"raise:" \o PassNames[i] : i \in DOMAIN PassNames}
IsPrefix(s, t) == Len(s) <= Len(t) /\ s = SubSeq(t, 1, Len(s))
\* the position of the first e in the sequence s, 0 when there is none
FirstIndex(s, e) ==
  IF e \in Range(s) THEN CHOOSE i \in DOMAIN s : s[i] = e /\ \A j \in 1..(i - 1) : s[j] # e
  ELSE 0
SettleOrder == <<"goto", "wait_2000", "sweep", "scroll_top", "wait_1000", "start:extract_content">>
IsSettleEvent(e) == e \in Range(SettleOrder)
\* C14: in every call the navigation, the 2 s delay, the scroll sweep, the
\* scroll back to the top, the 1 s delay and the call of the first pass
\* happen in that order, each at most once, and the delay follows a
\* navigation that succeeded; the sweep moves in steps of 100 px, takes at least
\* one step and is over at the first step at which the distance covered has
\* reached the document's height; from the call of the first pass on, the page
\* is scrolled to the top.
C14_SettleOrderThenTop ==
  \A r \in Reqs :
    LET ev == SelectSeq(events[r], IsSettleEvent)
    IN /\ IsPrefix(ev, SettleOrder)
       /\ "wait_2000" \in Range(ev) => nav[r] = "ok"
       /\ total_height[r] % 100 = 0
       /\ scroll_y[r] <= total_height[r]
       /\ "sweep" \in Range(ev) =>
            /\ total_height[r] >= 100
            /\ total_height[r] >= scroll_height[r]
            /\ (total_height[r] = 100 \/ total_height[r] - 100 < scroll_height[r])
       /\ "start:extract_content" \in Range(ev) => scroll_y[r] = 0
       /\ pc[r] \in Range(PassNames) => ("wait_1000" \in Range(ev) /\ scroll_y[r] = 0)
\* a page taller than the viewport, which grew twice while it was scrolled,
\* is back at the top when extract_content is called
C14_Witness ==
  /\ pc["r1"] = "extract_content"
  /\ events["r1"] = SettleOrder
  /\ scroll_height["r1"] = TallPage + 2 * GrowStep
  /\ total_height["r1"] >= scroll_height["r1"]
  /\ scroll_y["r1"] = 0

\* C15: in one scrape_website call page.goto is awaited at most once, and
\* once it has failed nothing else is attempted in that call; in one
\* download_assets call the k-th thing that happened to a candidate happened
\* to candidate k, so no candidate is taken up twice, whatever its fetch
\* gave; and a failed fetch ends only its candidate: when the image loop is
\* left every candidate has been taken up.
C15_NothingRetried ==
  \A r \in Reqs :
    /\ Cardinality({i \in DOMAIN events[r] : events[r][i] = "goto"}) <= 1
    /\ nav[r] \in {"timeout", "unreachable"} =>
         /\ events[r] = <<"goto">>
         /\ pc[r] \in {"finally", "sw_raised", "responded"}
         /\ fetch_log[r] = <<>>
    /\ Len(fetch_log[r]) <= Len(all_images[r])
    /\ \A k \in DOMAIN fetch_log[r] : fetch_log[r][k].cand = k
    /\ (fetch_log[r] # <<>> /\ pc[r] # "da_image") => Len(fetch_log[r]) = Len(all_images[r])
\* the first fetch raised, the second was answered 404, and the call returned
C15_Witness ==
  /\ pc["r1"] = "sw_returned"
  /\ Len(fetch_log["r1"]) = 2
  /\ fetch_log["r1"][1].outcome = "exc"
  /\ fetch_log["r1"][2].outcome = "non200"

\* C16: a step of the image loop that fetched, with status 200, bytes whose
\* hash the call's table already holds writes no file, leaves the table as
\* it is, and appends the candidate's entry with local_path set to the path
\* the table holds for that hash, and with nothing else added to it.
C16_DedupHitFrame ==
  [][\A r \in Reqs :
       ( /\ Len(fetch_log'[r]) = Len(fetch_log[r]) + 1
         /\ StatusOk(fetch_log'[r][Len(fetch_log'[r])].status)
         /\ Has(seen_hashes[r], md5(fetch_log'[r][Len(fetch_log'[r])].body)) )
       => LET d == all_images[r][img_i[r]]
              path == seen_hashes[r][md5(fetch_log'[r][Len(fetch_log'[r])].body)]
          IN /\ files' = files
             /\ written'[r] = written[r]
             /\ seen_hashes'[r] = seen_hashes[r]
             /\ downloaded_images'[r] = Append(downloaded_images[r], Put(d, "local_path", path))
             /\ img_i'[r] = img_i[r] + 1]_vars
\* with conversion on, a.png was stored as WebP and b.PNG then brought the
\* same bytes: it got the .webp path and one file exists
C16_Witness ==
  /\ req["r1"].convert_to_webp
  /\ Len(fetch_log["r1"]) = 2
  /\ all_images["r1"] = <<ImgRec(UrlA), ImgRec(UrlB)>>
  /\ fetch_log["r1"][1].outcome = "converted"
  /\ fetch_log["r1"][2].outcome = "hit"
  /\ downloaded_images["r1"][2] = Put(all_images["r1"][2], "local_path", downloaded_images["r1"][1].local_path)
  /\ Len(written["r1"]) = 1

\* candidate k of call r was to be converted and its bytes could not be
\* decoded: conversion is on, the URL's extension is .jpg, .jpeg, .png or
\* .gif in any letter case, the fetch gave status 200 and bytes that are no
\* image, and no earlier candidate of the call had brought the same bytes
ConversionFailed(r, k) ==
  /\ req[r].convert_to_webp
  /\ Has(all_images[r][k], "url")
  /\ all_images[r][k].url.ext \in {".jpg", ".jpeg", ".png", ".gif", ".PNG"}
  /\ fetch_log[r][k].status = 200
  /\ fetch_log[r][k].body = "junk"
  /\ \A j \in 1..(k - 1) : ~(fetch_log[r][j].status = 200 /\ fetch_log[r][j].body = "junk")
\* C17: a candidate whose conversion failed is in the result, with the
\* candidate's fields, a local_path made of the content hash and the URL's
\* extension in lower case, and no 'converted' mark; the file at that path
\* holds the fetched bytes unchanged; the table maps the hash to that path;
\* and the loop went on: when it is left, every candidate has been taken up.
C17_FailedConversionStoresOriginal ==
  \A r \in Reqs : \A k \in DOMAIN fetch_log[r] :
    ConversionFailed(r, k) =>
      LET body == fetch_log[r][k].body
          path == "assets/images/" \o md5(body) \o ".png"
      IN /\ Materialized(fetch_log[r][k].outcome)
         /\ EntryOf(r, k) = Put(all_images[r][k], "local_path", path)
         /\ ~Has(EntryOf(r, k), "converted")
         /\ Has(files, path) /\ files[path] = [kind |-> "bytes", data |-> body]
         /\ Has(seen_hashes[r], md5(body)) /\ seen_hashes[r][md5(body)] = path
         /\ pc[r] # "da_image" => Len(fetch_log[r]) = Len(all_images[r])
\* b.PNG brought bytes that are no image, a.png after it was converted, and
\* the call returned both
C17_Witness ==
  /\ pc["r1"] = "da_returned"
  /\ req["r1"].convert_to_webp
  /\ all_images["r1"] = <<ImgRec(UrlB), ImgRec(UrlA)>>
  /\ fetch_log["r1"][1].body = "junk" /\ fetch_log["r1"][1].status = 200
  /\ fetch_log["r1"][2].outcome = "converted"
  /\ da_result["r1"].total_images = 2

\* u is a data URI: its scheme is "data" in any letter case
IsDataUri(u) == u.scheme \in {"data", "DATA", "Data"}
\* C18: a candidate whose URL is a data URI gets no response: nothing is
\* fetched for it, and when its URL starts with 'data:' the loop passes it
\* over before any fetch is attempted; no entry of the result has a data URI,
\* and the table and the files written come from the other candidates only:
\* one table entry per distinct body answered with status 200 to a candidate
\* that is no data URI, one file per table entry.
C18_DataUriNeverMaterialized ==
  \A r \in Reqs :
    /\ \A k \in DOMAIN fetch_log[r] :
         (Has(all_images[r][k], "url") /\ IsDataUri(all_images[r][k].url)) =>
           /\ fetch_log[r][k].status = 0 /\ fetch_log[r][k].body = ""
           /\ fetch_log[r][k].path = ""
           /\ ~Materialized(fetch_log[r][k].outcome)
           /\ all_images[r][k].url.scheme = "data" => fetch_log[r][k].outcome = "data"
    /\ \A j \in DOMAIN downloaded_images[r] : ~IsDataUri(downloaded_images[r][j].url)
    /\ DOMAIN seen_hashes[r] =
         { md5(fetch_log[r][k].body) :
             k \in {i \in DOMAIN fetch_log[r] :
                      /\ fetch_log[r][i].status = 200
                      /\ ~IsDataUri(all_images[r][i].url)} }
    /\ pc[r] = "da_image" => Len(written[r]) = Cardinality(DOMAIN seen_hashes[r])
\* a data URI, the same in capitals, nothing in the result, and the call
\* returned
C18_Witness ==
  /\ pc["r1"] = "da_returned"
  /\ all_images["r1"] = <<ImgRec(UrlData), ImgRec(UrlDataUpper)>>
  /\ fetch_log["r1"][1].outcome = "data"
  /\ fetch_log["r1"][2].outcome = "exc"
  /\ da_result["r1"].images = <<>>
  /\ written["r1"] = <<>>

\* the trimmed texts of the first n <p> elements of the page that are shown
\* and whose trimmed text has at least `least` characters, in document order
RECURSIVE ShownTextsOfLength(_, _)
ShownTextsOfLength(n, least) ==
  IF n = 0 THEN <<>>
  ELSE LET el == ec_page[n]
           shown == /\ el.display # "none" /\ el.visibility # "hidden"
                    /\ el.opacity # "0" /\ el.offsetParent
       IN ShownTextsOfLength(n - 1, least) \o
            (IF shown /\ Len(trim(el.innerText)) >= least THEN <<trim(el.innerText)>> ELSE <<>>)
\* C19 as stated: the paragraphs list holds the trimmed text of exactly the
\* visible <p> elements visited whose trimmed text has 10 or more characters.
C19_KeptFromTenCharacters ==
  paragraphs = ShownTextsOfLength(ec_k - 1, 10)
\* C19, amended: the paragraphs list holds the trimmed text of exactly the
\* visible <p> elements visited whose trimmed text has 11 or more characters;
\* a visible paragraph of exactly 10 characters is dropped.
C19_KeptFromElevenCharacters ==
  paragraphs = ShownTextsOfLength(ec_k - 1, 11)
\* a shown paragraph of exactly 10 characters was dropped and a shown one of
\* 11 was kept
C19_Witness ==
  /\ ec_pc = "done"
  /\ ec_page = << PElement(ShownStyle, Rep("a", 10) \o <<"\n">>), PElement(ShownStyle, Rep("a", 11)) >>
  /\ paragraphs = << Rep("a", 11) >>

\* the name a <meta> element goes by: its 'name' attribute, else 'property'
MetaName(meta) == OrElse(meta.name, meta.property)
\* the <meta> elements visited that have a name and a content
Routed == {i \in DOMAIN em_log : TruthyStr(MetaName(em_log[i])) /\ TruthyStr(em_log[i].content)}
\* the content of the last visited element whose name, in lower case, is in
\* `names`; `none` when there is no such element
LastContent(names, none) ==
  LET hits == {i \in Routed : toLowerCase(MetaName(em_log[i])) \in names}
  IN IF hits = {} THEN none
     ELSE em_log[CHOOSE i \in hits : \A j \in hits : j <= i].content
\* C20: the names of <meta> elements are matched in any letter case, in the
\* 'name' or the 'property' attribute: description, author and language/lang
\* hold the content of the last element of that name, and every element
\* whose name is 'og:X' or 'twitter:X' in any letter case has its suffix X as
\* a key of the opengraph or the twitter mapping.
C20_MetaNamesInAnyCase ==
  /\ em_result.description = LastContent({S_description}, <<>>)
  /\ em_result.author = LastContent({S_author}, JsNull)
  /\ em_pc = "metas" => em_result.language = LastContent({S_language, S_lang}, JsNull)
  /\ \A i \in Routed :
       LET name == MetaName(em_log[i])
       IN /\ startsWith(toLowerCase(name), OgPrefix) =>
               Has(em_result.opengraph, substring(name, 3))
          /\ startsWith(toLowerCase(name), TwitterPrefix) =>
               Has(em_result.twitter, substring(name, 8))

\* the entries of `written` that are SVG files
SvgWrites(r) ==
  {i \in DOMAIN written[r] : \E k \in 0..MaxSvgs : written[r][i] = SvgPath(k)}
\* C21: the SVGs extract_assets locates carry the indices 0..n-1 in document
\* order; when download_assets has returned for them, it wrote n SVG files
\* with pairwise distinct names made from the index, its result has n SVG
\* entries in the same order and total_svgs = n, also when markups are
\* identical, and each file holds the markup of its SVG as located.
C21_SvgsByOrdinalNeverDeduplicated ==
  /\ \A k \in DOMAIN ea_result.svgs : ea_result.svgs[k].index = k - 1
  /\ pc["r1"] = "da_returned" =>
       LET located == ea_result.svgs
           stored == da_result["r1"].svgs
       IN /\ Len(stored) = Len(located)
          /\ da_result["r1"].total_svgs = Len(located)
          /\ Cardinality(SvgWrites("r1")) = Len(located)
          /\ \A k \in DOMAIN located :
               /\ stored[k].content = located[k].content
               /\ stored[k].index = k - 1
               /\ stored[k].local_path = SvgPath(k - 1)
               /\ files[stored[k].local_path] = [kind |-> "text", data |-> located[k].content]
          /\ \A j, k \in DOMAIN stored :
               j # k => stored[j].local_path # stored[k].local_path
\* two SVGs of identical markup were located and the call returned
C21_Witness ==
  /\ pc["r1"] = "da_returned"
  /\ Len(ea_result.svgs) = 2
  /\ ea_result.svgs[1].content = ea_result.svgs[2].content
  /\ da_result["r1"].total_svgs = 2

\* the settle phase of request r is over: the first pass has been called, or
\* an error has ended the call
SettleOver(r) ==
  \/ "start:extract_content" \in Range(events[r])
  \/ exc[r] # NoExc
\* on a document that has a body the settle phase ends, also when the page
\* grows while it is scrolled
SweepEndsWhenBodyExists ==
  (nav["r1"] = "ok" /\ scroll_height["r1"] # NoBody) ~> SettleOver("r1")
\* C22: once navigation has succeeded the settle phase ends, whatever the
\* document: the sweep resolves after finitely many ticks and the first pass
\* is called, unless an error of the browser ends the call first.  (Where it
\* fails, scrape_website stays suspended at the await of line 68 for ever:
\* the only steps left are ticks of the page's timer, which throw.)
C22_SettlePhaseTerminates ==
  (nav["r1"] = "ok") ~> SettleOver("r1")

\* scrape_website returned its result to request r, which asked for assets
ReturnedWithAssets(r) ==
  /\ pc[r] \in {"sw_returned", "responded"}
  /\ exc[r] = NoExc
  /\ req[r].save_assets
\* every image entry returned to r names a file that holds the bytes fetched
\* for it
ImagePathsOwn(r) ==
  \A k \in DOMAIN fetch_log[r] :
    Materialized(fetch_log[r][k].outcome) =>
      /\ EntryOf(r, k) = sw_result[r].assets.images[Rank(r, k)]
      /\ files[EntryOf(r, k).local_path].data = fetch_log[r][k].body
\* every SVG entry returned to r names a file that holds its markup
SvgPathsOwn(r) ==
  \A k \in DOMAIN sw_result[r].assets.svgs :
    LET svg == sw_result[r].assets.svgs[k]
    IN files[svg.local_path] = [kind |-> "text", data |-> svg.content]
\* the four snapshots under output/ are records of one and the same request
SnapshotsOfOneRequest ==
  \E r \in Reqs : \A i \in DOMAIN OutputFiles :
    files[OutputFiles[i]] = [kind |-> "json", data |-> r]
\* C23: when both requests asked for assets and scrape_website has returned
\* to both, in whatever order their steps were taken, every local_path
\* returned to a request names a file holding that request's data (the bytes
\* of its image, the markup of its SVG), and the snapshots under output/ are
\* all of one request.
C23_ConcurrentRequestsKeepOwnData ==
  (\A r \in Reqs : ReturnedWithAssets(r)) =>
    /\ \A r \in Reqs : ImagePathsOwn(r) /\ SvgPathsOwn(r)
    /\ SnapshotsOfOneRequest
\* the same, without the SVG files
ImagesAndSnapshotsKeepOwnData ==
  (\A r \in Reqs : ReturnedWithAssets(r)) =>
    /\ \A r \in Reqs : ImagePathsOwn(r)
    /\ SnapshotsOfOneRequest

\* entry is candidate d with keys added (local_path, converted) and nothing
\* else changed
IsEntryOf(entry, d) ==
  /\ DOMAIN d \subseteq DOMAIN entry
  /\ \A key \in DOMAIN d : entry[key] = d[key]
\* C24: when download_assets has returned, the candidates are the images
\* followed by the backgrounds it was given; the images of the result are
\* candidates with keys added, in the order of the candidate list and each
\* from a later candidate than the one before; every one has a local_path;
\* total_images is their number, 'deduplicated' is not negative, and the two
\* add up to the number of candidates.
C24_ImagesAreOrderedSubsequence ==
  \A r \in Reqs :
    pc[r] = "da_returned" =>
      LET res == da_result[r]
          cands == Get(assets_data[r], "images", <<>>) \o Get(assets_data[r], "backgrounds", <<>>)
      IN /\ all_images[r] = cands
         /\ \E f \in [DOMAIN res.images -> DOMAIN cands] :
              /\ \A j, k \in DOMAIN res.images : j < k => f[j] < f[k]
              /\ \A k \in DOMAIN res.images : IsEntryOf(res.images[k], cands[f[k]])
         /\ \A k \in DOMAIN res.images : Has(res.images[k], "local_path")
         /\ res.total_images = Len(res.images)
         /\ res.deduplicated >= 0
         /\ res.total_images + res.deduplicated = Len(cands)
\* an image whose fetch was answered 404 and a background that was stored:
\* the result holds the background alone
C24_Witness ==
  /\ pc["r1"] = "da_returned"
  /\ Has(assets_data["r1"], "backgrounds")
  /\ Len(assets_data["r1"].images) = 1 /\ Len(assets_data["r1"].backgrounds) = 1
  /\ fetch_log["r1"][1].status = 404
  /\ Len(da_result["r1"].images) = 1
  /\ da_result["r1"].images[1].type = "background"
  /\ da_result["r1"].deduplicated = 1

\* a step that took up a candidate whose fetch was answered with a status
\* other than 200
TookNon200(r) ==
  /\ Len(fetch_log'[r]) = Len(fetch_log[r]) + 1
  /\ fetch_log'[r][Len(fetch_log'[r])].status \notin {0, 200}
\* C26: a candidate is stored and included in the result only if its fetch
\* was answered with status 200; a candidate answered with any other status,
\* 204 included, is skipped: the step writes no file, inserts no hash and
\* appends no entry, and when the call has returned 'deduplicated' counts it
\* among the candidates that have no entry.
C26_OnlyStatus200Stored ==
  /\ [](\A k \in DOMAIN fetch_log["r1"] :
          LET f == fetch_log["r1"][k]
          IN /\ Materialized(f.outcome) => f.status = 200
             /\ f.status \notin {0, 200} => (f.outcome = "non200" /\ f.path = ""))
  /\ [][TookNon200("r1") =>
          /\ files' = files
          /\ written' = written
          /\ seen_hashes' = seen_hashes
          /\ downloaded_images' = downloaded_images]_vars
  /\ [](pc["r1"] = "da_returned" =>
          /\ da_result["r1"].deduplicated =
               Cardinality({k \in DOMAIN fetch_log["r1"] :
                              ~Materialized(fetch_log["r1"][k].outcome)})
          /\ da_result["r1"].total_images =
               Cardinality({k \in DOMAIN fetch_log["r1"] :
                              fetch_log["r1"][k].status = 200}))
\* one candidate answered 204 and one answered 200: one entry, one counted
\* as deduplicated, one file
C26_Witness ==
  /\ pc["r1"] = "da_returned"
  /\ Len(fetch_log["r1"]) = 2
  /\ fetch_log["r1"][1].status = 204
  /\ fetch_log["r1"][2].status = 200
  /\ da_result["r1"].total_images = 1
  /\ da_result["r1"].deduplicated = 1
  /\ Cardinality(DOMAIN files) = 1

\* the entries of `written` that are image files
ImageWrites(r) == DOMAIN written[r] \ SvgWrites(r)
\* a step inserts into the table of r only the hash of the bytes it just
\* fetched, when the table did not hold it, and leaves every other entry as
\* it was
TableStep(r) ==
  LET old == seen_hashes[r]
      new == seen_hashes'[r]
  IN /\ \A h \in DOMAIN old : Has(new, h) /\ new[h] = old[h]
     /\ new # old =>
          /\ Len(fetch_log'[r]) = Len(fetch_log[r]) + 1
          /\ LET last == fetch_log'[r][Len(fetch_log'[r])]
             IN /\ DOMAIN new = DOMAIN old \cup {md5(last.body)}
                /\ ~Has(old, md5(last.body))
                /\ last.outcome \in {"converted", "fallback", "original"}
\* C25: within one download_assets call the table only grows: an entry is
\* inserted only for a hash it does not hold, an entry is never changed or
\* removed, no two hashes have the same local path, and at every point the
\* number of entries is the number of image files the call has written.
C25_TableOnlyGrows ==
  /\ [](\A h1, h2 \in DOMAIN seen_hashes["r1"] :
          h1 # h2 => seen_hashes["r1"][h1] # seen_hashes["r1"][h2])
  /\ [](/\ Cardinality(DOMAIN seen_hashes["r1"]) = Cardinality(ImageWrites("r1"))
        /\ Cardinality(DOMAIN seen_hashes["r1"])
             = Cardinality({written["r1"][i] : i \in ImageWrites("r1")}))
  /\ [][TableStep("r1")]_vars
\* the call stored the bytes of two candidates in two files, one converted
\* and one as fetched, and returned
C25_Witness ==
  /\ pc["r1"] = "da_returned"
  /\ Cardinality(DOMAIN seen_hashes["r1"]) = 2
  /\ fetch_log["r1"][1].outcome = "converted"
  /\ fetch_log["r1"][2].outcome = "fallback"
  /\ Len(written["r1"]) >= 2

\* page.goto failed in the call of request r
NavigationFailed(r) == nav[r] \in {"timeout", "unreachable"}
\* C27: when page.goto has failed, the call does nothing of the later
\* phases: after the navigation it awaits nothing but browser.close(), no
\* pass has run and no record is held, download_assets was not entered, no
\* step of the call writes or changes a file, no result is returned, and the
\* error of the navigation leaves scrape_website only once the browser is
\* closed.
C27_NavigationFailureEndsCall ==
  /\ [](\A r \in Reqs :
          NavigationFailed(r) =>
            /\ events[r] = <<"goto">>
            /\ pc[r] \in {"finally", "sw_raised", "responded"}
            /\ exc[r].at = "goto"
            /\ content_data[r] = "" /\ tokens_data[r] = "" /\ meta_data[r] = ""
            /\ assets_data[r] = EmptyDict
            /\ all_images[r] = <<>> /\ fetch_log[r] = <<>> /\ written[r] = <<>>
            /\ da_result[r] = EmptyDict
            /\ sw_result[r] = EmptyDict
            /\ pc[r] = "finally" => (browser[r] = "open" /\ closes[r] = 0)
            /\ pc[r] \in {"sw_raised", "responded"} => (browser[r] = "closed" /\ closes[r] = 1)
            /\ pc[r] = "responded" => http_status[r] \notin {0, 200})
  /\ [][\A r \in Reqs :
          (NavigationFailed(r)' /\ pc'[r] # pc[r]) => files' = files]_vars
\* the navigation of r1 timed out and its error was answered, with the
\* browser closed, while r2 stored files and returned
C27_Witness ==
  /\ nav["r1"] = "timeout"
  /\ pc["r1"] = "responded"
  /\ browser["r1"] = "closed"
  /\ pc["r2"] = "sw_returned"
  /\ written["r2"] # <<>>
  /\ Has(files, OutputFiles[1])

====
